---- MODULE Spec2Model ----
(***************************************************************************)
(* A model of the events-app data layer: the record descriptors            *)
(* (data/models), the query clause builder (data/repository/model_query)   *)
(* and the generic CRUD engine (data/repository/repo) running against a    *)
(* relational store.                                                       *)
(*                                                                         *)
(* Go strings are sequences of one-character strings, so that suffixes,    *)
(* prefixes, splitting and number parsing are computed as the code         *)
(* computes them.  SQL text is such a sequence too.                        *)
(***************************************************************************)
EXTENDS Integers, Sequences, FiniteSets, TLC

VARIABLES
    tables,   \* table name -> (id -> row); a row maps column names to values
    seqs,     \* table name -> next value of the table's id sequence
    now,      \* the store's clock, the source of created_at
    open,     \* statement handles and result sets opened and not yet closed
    hist,     \* table name -> (id -> the last record written to that row)
    req,      \* the query request of the clause-builder specifications
    last,     \* what the last call was given and what it returned
    calls     \* the Create calls in flight, each with its position

vars == <<tables, seqs, now, open, hist, req, last, calls>>

-----------------------------------------------------------------------------
(* Bounds of the model.                                                    *)

MaxUserId == 2
MaxEventId == 1
MaxOpen == 1
MaxSeedRows == 12
MaxDeleted == 3
MaxCalls == 2

\* Only({e : x \in {v}}) is e with x standing for the value v: v is computed
\* once, however often e reads x.
Only(S) == CHOOSE x \in S : TRUE

-----------------------------------------------------------------------------
(* Strings.                                                                *)

Digits == <<"0", "1", "2", "3", "4", "5", "6", "7", "8", "9">>

IsDigit(c) == \E i \in 1..10 : Digits[i] = c

DigitVal(c) == (CHOOSE i \in 1..10 : Digits[i] = c) - 1

\* The characters of the model in ASCII order; Code orders them as bytes.
Alphabet ==
    <<" ", "!", "$", "%", "'", "(", ")", "*", "+", ",", "-", ".", "/",
      "0", "1", "2", "3", "4", "5", "6", "7", "8", "9", ":", "<", "=",
      ">", "?", "@", "A", "B", "C", "D", "E", "F", "G", "H", "I", "J",
      "K", "L", "M", "N", "O", "P", "Q", "R", "S", "T", "U", "V", "W",
      "X", "Y", "Z", "_", "a", "b", "c", "d", "e", "f", "g", "h", "i",
      "j", "k", "l", "m", "n", "o", "p", "q", "r", "s", "t", "u", "v",
      "w", "x", "y", "z">>

Code(c) == CHOOSE i \in 1..Len(Alphabet) : Alphabet[i] = c

HasSuffix(s, suf) ==
    /\ Len(s) >= Len(suf)
    /\ SubSeq(s, Len(s) - Len(suf) + 1, Len(s)) = suf

TrimSuffix(s, suf) ==
    IF HasSuffix(s, suf) THEN SubSeq(s, 1, Len(s) - Len(suf)) ELSE s

HasPrefix(s, pre) ==
    /\ Len(s) >= Len(pre)
    /\ SubSeq(s, 1, Len(pre)) = pre

TrimPrefix(s, pre) ==
    IF HasPrefix(s, pre) THEN SubSeq(s, Len(pre) + 1, Len(s)) ELSE s

\* strings.Split(s, sep) for a one-character separator: "" gives one empty
\* element, and n separators give n + 1 elements.
RECURSIVE Split(_, _)
Split(s, sep) ==
    IF \A i \in 1..Len(s) : s[i] # sep
    THEN <<s>>
    ELSE LET k == CHOOSE i \in 1..Len(s) :
                      s[i] = sep /\ \A j \in 1..(i - 1) : s[j] # sep
         IN  <<SubSeq(s, 1, k - 1)>> \o Split(SubSeq(s, k + 1, Len(s)), sep)

\* strings.Join
RECURSIVE Join(_, _)
Join(parts, sep) ==
    IF Len(parts) = 0 THEN <<>>
    ELSE IF Len(parts) = 1 THEN parts[1]
    ELSE parts[1] \o sep \o Join(Tail(parts), sep)

\* strings.Contains
Contains(s, sub) ==
    \E i \in 1..(Len(s) - Len(sub) + 1) : SubSeq(s, i, i + Len(sub) - 1) = sub

\* Byte-wise string order.
RECURSIVE StrLess(_, _)
StrLess(a, b) ==
    IF Len(b) = 0 THEN FALSE
    ELSE IF Len(a) = 0 THEN TRUE
    ELSE IF a[1] # b[1] THEN Code(a[1]) < Code(b[1])
    ELSE StrLess(Tail(a), Tail(b))

\* The decimal digits of a natural number (the %d verb of fmt.Sprintf).
RECURSIVE NatToStr(_)
NatToStr(n) ==
    IF n < 10 THEN <<Digits[n + 1]>>
    ELSE NatToStr(n \div 10) \o <<Digits[(n % 10) + 1]>>

Itoa(n) == IF n < 0 THEN <<"-">> \o NatToStr(-n) ELSE NatToStr(n)

AllDigits(s) == Len(s) > 0 /\ \A i \in 1..Len(s) : IsDigit(s[i])

RECURSIVE DigitsVal(_)
DigitsVal(s) ==
    IF Len(s) = 0 THEN 0
    ELSE 10 * DigitsVal(SubSeq(s, 1, Len(s) - 1)) + DigitVal(s[Len(s)])

\* strconv.Atoi: an optional sign and then one or more decimal digits.  The
\* bounded inputs are short, so the range error of Atoi does not arise.
AtoiOk(s) ==
    IF Len(s) > 0 /\ s[1] \in {"+", "-"} THEN AllDigits(Tail(s)) ELSE AllDigits(s)

Atoi(s) ==
    IF s[1] = "-" THEN 0 - DigitsVal(Tail(s))
    ELSE IF s[1] = "+" THEN DigitsVal(Tail(s))
    ELSE DigitsVal(s)

\* The index of the last digit of the run of digits that starts at i.
RECURSIVE DigitRunEnd(_, _)
DigitRunEnd(s, i) ==
    IF i <= Len(s) /\ IsDigit(s[i]) THEN DigitRunEnd(s, i + 1) ELSE i - 1

\* The numbers of the $n placeholders of a SQL text, in the order of the
\* text: this is how the store matches bind values to the statement.
PlaceholdersIn(s) ==
    Only({[k \in 1..Len(pos) |->
              DigitsVal(SubSeq(s, pos[k] + 1, DigitRunEnd(s, pos[k] + 1)))] :
          pos \in {SelectSeq([i \in 1..Len(s) |-> i],
                             LAMBDA i : s[i] = "$")}})

\* strconv.ParseFloat on decimal input without an exponent: an optional sign,
\* digits with at most one point, and at least one digit.  The bounded inputs
\* hold no exponent, hexadecimal, inf or nan spelling.
ParseFloatOk(s) ==
    LET body == IF Len(s) > 0 /\ s[1] \in {"+", "-"} THEN Tail(s) ELSE s
        points == {i \in 1..Len(body) : body[i] = "."}
    IN  /\ \A i \in 1..Len(body) : IsDigit(body[i]) \/ body[i] = "."
        /\ Cardinality(points) <= 1
        /\ \E i \in 1..Len(body) : IsDigit(body[i])

-----------------------------------------------------------------------------
(* Values: what a record field, a bind parameter or a stored column holds. *)

IntV(n) == [i |-> n, s |-> <<>>, t |-> "int"]
StrV(s) == [i |-> 0, s |-> s, t |-> "str"]
TimeV(n) == [i |-> n, s |-> <<>>, t |-> "time"]
\* A float64 is kept by its spelling: no column of the schema is a float.
FloatV(s) == [i |-> 0, s |-> s, t |-> "float"]

\* The zero value of a Go field of the given kind.
ZeroV(kind) ==
    CASE kind = "int" -> IntV(0)
      [] kind = "str" -> StrV(<<>>)
      [] kind = "time" -> TimeV(0)

\* Errors: nil, or a message.
NoErr == [nil |-> TRUE, msg |-> <<>>]
Err(msg) == [nil |-> FALSE, msg |-> msg]

\* What the store's driver reports; its text is not part of the program.
DriverErr == <<"d", "r", "i", "v", "e", "r", " ", "e", "r", "r", "o", "r">>
ErrNoRows == <<"s", "q", "l", ":", " ", "n", "o", " ", "r", "o", "w", "s", " ", "i", "n", " ", "r", "e", "s", "u", "l", "t", " ", "s", "e", "t">>

-----------------------------------------------------------------------------
(* Record types (package models).  A field carries its Go name, its json    *)
(* and db tags, its readOnly tag and the kind of its Go type.               *)

Field(name, json, db, ro, kind) ==
    [kind |-> kind, name |-> name, json |-> json, db |-> db, ro |-> ro]

UserFields ==
    << Field("ID", <<"i", "d">>, <<"i", "d">>, TRUE, "int"),
       Field("Email", <<"e", "m", "a", "i", "l">>, <<"e", "m", "a", "i", "l">>, FALSE, "str"),
       Field("Password", <<"p", "a", "s", "s", "w", "o", "r", "d">>, <<"p", "a", "s", "s", "w", "o", "r", "d">>, FALSE, "str"),
       Field("CreatedAt", <<"c", "r", "e", "a", "t", "e", "d", "A", "t">>, <<"c", "r", "e", "a", "t", "e", "d", "_", "a", "t">>, TRUE, "time") >>

EventFields ==
    << Field("ID", <<"i", "d">>, <<"i", "d">>, TRUE, "int"),
       Field("UserID", <<"u", "s", "e", "r", "I", "d">>, <<"u", "s", "e", "r", "_", "i", "d">>, FALSE, "int"),
       Field("Name", <<"n", "a", "m", "e">>, <<"n", "a", "m", "e">>, FALSE, "str"),
       Field("Description", <<"d", "e", "s", "c", "r", "i", "p", "t", "i", "o", "n">>, <<"d", "e", "s", "c", "r", "i", "p", "t", "i", "o", "n">>, FALSE, "str"),
       Field("StartDate", <<"s", "t", "a", "r", "t", "D", "a", "t", "e">>, <<"s", "t", "a", "r", "t", "_", "d", "a", "t", "e">>, FALSE, "time"),
       Field("CreatedAt", <<"c", "r", "e", "a", "t", "e", "d", "A", "t">>, <<"c", "r", "e", "a", "t", "e", "d", "_", "a", "t">>, TRUE, "time"),
       Field("MaxAttendees", <<"m", "a", "x", "A", "t", "t", "e", "n", "d", "e", "e", "s">>, <<"m", "a", "x", "_", "a", "t", "t", "e", "n", "d", "e", "e", "s">>, FALSE, "int") >>

\* The record type of the package's tests; it has no json tags.
MockModelFields ==
    << Field("ID", <<>>, <<"i", "d">>, TRUE, "int"),
       Field("Name", <<>>, <<"n", "a", "m", "e">>, FALSE, "str"),
       Field("Email", <<>>, <<"e", "m", "a", "i", "l">>, FALSE, "str"),
       Field("CreatedAt", <<>>, <<"c", "r", "e", "a", "t", "e", "d", "_", "a", "t">>, TRUE, "time") >>

ModelTypes == {"User", "Event", "MockModel"}

\* reflect: the struct fields of a type, in declaration order.
Fields(T) ==
    CASE T = "User" -> UserFields
      [] T = "Event" -> EventFields
      [] T = "MockModel" -> MockModelFields

TableName(T) ==
    CASE T = "User" -> <<"u", "s", "e", "r", "s">>
      [] T = "Event" -> <<"e", "v", "e", "n", "t", "s">>
      [] T = "MockModel" -> <<"m", "o", "c", "k", "_", "m", "o", "d", "e", "l", "s">>

\* The %T verb of fmt on a value of the type.
TypeName(T) ==
    CASE T = "User" -> <<"m", "o", "d", "e", "l", "s", ".", "U", "s", "e", "r">>
      [] T = "Event" -> <<"m", "o", "d", "e", "l", "s", ".", "E", "v", "e", "n", "t">>
      [] T = "MockModel" -> <<"m", "o", "d", "e", "l", "s", ".", "M", "o", "c", "k", "M", "o", "d", "e", "l">>

FieldNames(T) == {Fields(T)[i].name : i \in 1..Len(Fields(T))}

\* A model value: its type, whether it is held by pointer, and its fields.
Model(T, ptr, f) == [ptr |-> ptr, f |-> f, type |-> T]

FieldByName(T, n) ==
    Fields(T)[CHOOSE i \in 1..Len(Fields(T)) : Fields(T)[i].name = n]

ZeroFields(T) == [n \in FieldNames(T) |-> ZeroV(FieldByName(T, n).kind)]

\* &T{} and T{}
EmptyModel(T, ptr) == Model(T, ptr, ZeroFields(T))

GetID(m) == m.f["ID"].i

\* The column names of the model's type: the db tag of every field in
\* declaration order, without the readOnly fields when asked.  The
\* variants before it drop the readOnly test, leave out the fields that
\* hold their zero value, and reverse the order.
GetColumnNamesKeepReadOnly(m, excludeReadOnlyFields) ==
    [i \in 1..Len(Fields(m.type)) |-> Fields(m.type)[i].db]

GetColumnNamesOmitZero(m, excludeReadOnlyFields) ==
    Only({[i \in 1..Len(kept) |-> kept[i].db] :
            kept \in {SelectSeq(Fields(m.type),
                         LAMBDA fd : /\ ~(excludeReadOnlyFields /\ fd.ro)
                                     /\ m.f[fd.name] # ZeroV(fd.kind))}})

GetColumnNamesReversed(m, excludeReadOnlyFields) ==
    Only({[i \in 1..Len(kept) |-> kept[Len(kept) + 1 - i].db] :
            kept \in {IF excludeReadOnlyFields
                      THEN SelectSeq(Fields(m.type), LAMBDA fd : ~fd.ro)
                      ELSE Fields(m.type)}})

GetColumnNames(m, excludeReadOnlyFields) ==
    Only({[i \in 1..Len(kept) |-> kept[i].db] :
            kept \in {IF excludeReadOnlyFields
                      THEN SelectSeq(Fields(m.type), LAMBDA fd : ~fd.ro)
                      ELSE Fields(m.type)}})

\* The json tag -> db tag map of the type; a later field overwrites an
\* earlier one with the same json tag.
MapJsonTagsToDB(m) ==
    LET fs == Fields(m.type)
        tags == {fs[i].json : i \in 1..Len(fs)}
        lastOf(tag) == CHOOSE i \in 1..Len(fs) :
                          /\ fs[i].json = tag
                          /\ \A j \in (i + 1)..Len(fs) : fs[j].json # tag
    IN  [tag \in tags |-> fs[lastOf(tag)].db]

\* A Go map read: the zero value "" when the key is absent.
MapGet(jsonMap, key) == IF key \in DOMAIN jsonMap THEN jsonMap[key] ELSE <<>>

\* A nil interface value, what a map of interface{} gives for a missing key.
NilV == [i |-> 0, s |-> <<>>, t |-> "nil"]

\* The validate tags of the fields of a type: the name of each field that
\* has any and its rules in the order written; min and max carry their
\* bound.
ValidateTags(T) ==
    LET rule(tag, param) == [tag |-> tag, param |-> param]
        required == rule(<<"r", "e", "q", "u", "i", "r", "e", "d">>, 0)
        tagged(go, rules) == [go |-> go, rules |-> rules]
    IN  CASE T = "User" ->
               [Email |-> tagged(<<"E", "m", "a", "i", "l">>, <<required, rule(<<"e", "m", "a", "i", "l">>, 0)>>),
                Password |-> tagged(<<"P", "a", "s", "s", "w", "o", "r", "d">>,
                                    <<rule(<<"m", "i", "n">>, 6), rule(<<"m", "a", "x">>, 120)>>)]
          [] T = "Event" ->
               [Name |-> tagged(<<"N", "a", "m", "e">>, <<required, rule(<<"m", "i", "n">>, 8),
                                           rule(<<"m", "a", "x">>, 100)>>),
                Description |-> tagged(<<"D", "e", "s", "c", "r", "i", "p", "t", "i", "o", "n">>,
                                       <<required, rule(<<"m", "i", "n">>, 8),
                                         rule(<<"m", "a", "x">>, 500)>>),
                StartDate |-> tagged(<<"S", "t", "a", "r", "t", "D", "a", "t", "e">>, <<required>>)]
          [] T = "MockModel" ->
               [Email |-> tagged(<<"E", "m", "a", "i", "l">>, <<rule(<<"e", "m", "a", "i", "l">>, 0)>>),
                Name |-> tagged(<<"N", "a", "m", "e">>, <<required>>)]

\* validate.Struct(m): every field with validate tags is checked against
\* its rules in order up to the first that fails; the error lists the
\* failures in field order, nil when there is none.  The email rule is
\* kept as far as the addresses used here go: one @, something before it,
\* and after it labels with dots between.
ValidateStruct(m) ==
    LET fs == Fields(m.type)
        tags == ValidateTags(m.type)
        isEmail(e) ==
            /\ Len(Split(e, "@")) = 2
            /\ Split(e, "@")[1] # <<>>
            /\ Len(Split(Split(e, "@")[2], ".")) >= 2
            /\ \A i \in 1..Len(Split(Split(e, "@")[2], ".")) :
                   Split(Split(e, "@")[2], ".")[i] # <<>>
        fails(v, r) ==
            CASE r.tag = <<"r", "e", "q", "u", "i", "r", "e", "d">> -> v = ZeroV(v.t)
              [] r.tag = <<"e", "m", "a", "i", "l">> -> ~isEmail(v.s)
              [] r.tag = <<"m", "i", "n">> -> Len(v.s) < r.param
              [] r.tag = <<"m", "a", "x">> -> Len(v.s) > r.param
        failed(i) ==
            SelectSeq(tags[fs[i].name].rules,
                      LAMBDA r : fails(m.f[fs[i].name], r))
        line(i) ==
            <<"K", "e", "y", ":", " ", "'">> \o SubSeq(TypeName(m.type), 8, Len(TypeName(m.type)))
            \o <<".">> \o tags[fs[i].name].go
            \o <<"'", " ", "E", "r", "r", "o", "r", ":", "F", "i", "e", "l", "d", " ", "v", "a", "l", "i", "d", "a", "t", "i", "o", "n", " ", "f", "o", "r", " ", "'">> \o tags[fs[i].name].go
            \o <<"'", " ", "f", "a", "i", "l", "e", "d", " ", "o", "n", " ", "t", "h", "e", " ", "'">> \o failed(i)[1].tag
            \o <<"'", " ", "t", "a", "g">>
        bad == SelectSeq([i \in 1..Len(fs) |-> i],
                         LAMBDA i : /\ fs[i].name \in DOMAIN tags
                                    /\ failed(i) # <<>>)
    IN  IF bad = <<>> THEN NoErr
        ELSE Err(Join([k \in 1..Len(bad) |-> line(bad[k])], <<"\n">>))

\* A variant that validates whatever it is given.
ValidateModelUnasserted(model) ==
    IF model.type \in ModelTypes THEN ValidateStruct(model) ELSE NoErr

\* ValidateModel(model): the type assertion to Model, then the validator.
\* The message formats %T of the asserted variable, which is the nil
\* interface when the assertion fails.
ValidateModel(model) ==
    IF model.type \notin ModelTypes
    THEN Err(<<"e", "x", "p", "e", "c", "t", "e", "d", " ", "m", "o", "d", "e", "l", ",", " ", "g", "o", "t", " ", "<", "n", "i", "l", ">">>)
    ELSE ValidateStruct(model)

\* A variant that gives the value of every field, in declaration order.
GetValsFromModelEveryField(m) ==
    [i \in 1..Len(Fields(m.type)) |-> m.f[Fields(m.type)[i].name]]

\* The values of the fields that are not readOnly, in the order of
\* GetColumnNames(m, true).
GetValsFromModel(m) ==
    LET fs == Fields(m.type)
        writable == {i \in 1..Len(fs) : ~fs[i].ro}
        fieldMap(cn) ==
            IF \E i \in writable : fs[i].db = cn
            THEN LET k == CHOOSE i \in writable :
                              /\ fs[i].db = cn
                              /\ \A j \in writable : fs[j].db = cn => j <= i
                 IN  m.f[fs[k].name]
            ELSE NilV
    IN  Only({[i \in 1..Len(columnNames) |-> fieldMap(columnNames[i])] :
                columnNames \in {GetColumnNames(m, TRUE)}})

\* The field slots a scan fills: every field of the type, in declaration
\* order (val.Field(i).Addr() for i = 0 .. NumField-1).
FieldPtrs(T) == [i \in 1..Len(Fields(T)) |-> Fields(T)[i].name]

\* Rows.Scan(dest...): one column per destination, each column converted to
\* the destination's type.  A column of another kind is a conversion error.
RowsScan(T, slots, cols) ==
    IF Len(slots) # Len(cols)
    THEN [f |-> ZeroFields(T),
          err |-> Err(<<"s", "q", "l", ":", " ", "e", "x", "p", "e", "c", "t", "e", "d", " ", "d", "e", "s", "t", "i", "n", "a", "t", "i", "o", "n", " ", "a", "r", "g", "u", "m", "e", "n", "t", "s", " ", "i", "n", " ", "S", "c", "a", "n">>)]
    ELSE IF \E i \in 1..Len(slots) :
                cols[i].t # FieldByName(T, slots[i]).kind
    THEN [f |-> ZeroFields(T), err |-> Err(<<"s", "q", "l", ":", " ", "S", "c", "a", "n", " ", "e", "r", "r", "o", "r", " ", "o", "n", " ", "c", "o", "l", "u", "m", "n">>)]
    ELSE [f |-> [n \in FieldNames(T) |->
                    cols[CHOOSE i \in 1..Len(slots) : slots[i] = n]],
          err |-> NoErr]

\* A *sql.Row is [err, found, cols]: the deferred query error, whether a row
\* came back, and its columns.  Row.Scan closes the result set; scanned
\* tells whether Row.Scan was called.
ScanRowToModel(m, r) ==
    IF ~m.ptr
    THEN [f |-> m.f,
          err |-> Err(<<"e", "x", "p", "e", "c", "t", "e", "d", " ", "p", "o", "i", "n", "t", "e", "r", " ", "t", "o", " ", "m", "o", "d", "e", "l", ",", " ", "g", "o", "t", " ">> \o TypeName(m.type)),
          scanned |-> FALSE]
    ELSE LET fieldPtrs == FieldPtrs(m.type)
         IN  IF ~r.err.nil
             THEN [f |-> m.f, err |-> r.err, scanned |-> TRUE]
             ELSE IF ~r.found
             THEN [f |-> m.f, err |-> Err(ErrNoRows), scanned |-> TRUE]
             ELSE Only({[f |-> IF sc.err.nil THEN sc.f ELSE m.f,
                         err |-> sc.err,
                         scanned |-> TRUE] :
                           sc \in {RowsScan(m.type, fieldPtrs, r.cols)}})

determineInitialCapacity(expectedRows) ==
    CASE expectedRows <= 10 -> 10
      [] expectedRows > 10 /\ expectedRows <= 25 -> 20
      [] expectedRows > 25 /\ expectedRows <= 50 -> 35
      [] expectedRows > 50 /\ expectedRows <= 100 -> 75
      [] expectedRows > 100 /\ expectedRows <= 200 -> 150
      [] expectedRows > 200 /\ expectedRows <= 300 -> 250
      [] expectedRows > 300 /\ expectedRows <= 500 -> 400
      [] expectedRows > 500 /\ expectedRows <= 1000 -> 900
      [] expectedRows > 1000 /\ expectedRows <= 2000 -> 1800
      [] expectedRows > 2000 /\ expectedRows <= 5000 -> 2500
      [] OTHER -> 5000

\* A *sql.Rows is [rows, err]: the rows it delivers and the terminal error
\* of the iteration.  One new record per row, appended in row order.
RECURSIVE ScanLoop(_, _, _)
ScanLoop(T, rows, acc) ==
    IF Len(rows) = 0 THEN [err |-> NoErr, recs |-> acc]
    ELSE Only({IF ~sc.err.nil THEN [err |-> sc.err, recs |-> <<>>]
               ELSE ScanLoop(T, Tail(rows), Append(acc, sc.f)) :
                 sc \in {RowsScan(T, FieldPtrs(T), rows[1])}})

\* A variant that takes the expected number of rows for a bound.
ScanRowsToSliceOfModelsBounded(m, rows, expectedRows) ==
    Only({[slots |-> FieldPtrs(m.type),
           err |-> loop.err,
           recs |-> SubSeq(loop.recs, 1, expectedRows),
           isNil |-> ~loop.err.nil,
           cap |-> expectedRows] :
            loop \in {ScanLoop(m.type, rows.rows, <<>>)}})

ScanRowsToSliceOfModels(m, rows, expectedRows) ==
    LET initialCapacity == determineInitialCapacity(expectedRows)
        fieldPtrs == IF Len(rows.rows) = 0 THEN <<>> ELSE FieldPtrs(m.type)
    IN  Only({IF ~loop.err.nil
              THEN [slots |-> fieldPtrs,
                    err |-> loop.err,
                    recs |-> <<>>,
                    isNil |-> TRUE,
                    cap |-> 0]
              ELSE IF ~rows.err.nil
              THEN [slots |-> fieldPtrs,
                    err |-> rows.err,
                    recs |-> <<>>,
                    isNil |-> TRUE,
                    cap |-> 0]
              ELSE [slots |-> fieldPtrs,
                    err |-> NoErr,
                    recs |-> loop.recs,
                    isNil |-> FALSE,
                    cap |-> IF Len(loop.recs) > initialCapacity
                            THEN Len(loop.recs) ELSE initialCapacity] :
                loop \in {ScanLoop(m.type, rows.rows, <<>>)}})

-----------------------------------------------------------------------------
(* The query clause builder (data/repository/model_query.go).              *)
(*                                                                         *)
(* A Go map is iterated in an order the runtime chooses: the builder takes *)
(* the map and, as `order`, the sequence in which the range loop visits    *)
(* its keys.                                                               *)

\* A variant that forgets offset.
ReservedKeysWithoutOffset == {<<"s", "o", "r", "t", "B", "y">>, <<"l", "i", "m", "i", "t">>}

ReservedKeys == {<<"s", "o", "r", "t", "B", "y">>, <<"l", "i", "m", "i", "t">>, <<"o", "f", "f", "s", "e", "t">>}

\* The limit and the offset of a query that names none.
DefaultLimit == 10
DefaultOffset == 0

\* A key resolves when the map has a column for it.  The first definition
\* is the second without the lookup.
validateQueryParamLenient(key, jsonMap) == NoErr

validateQueryParam(key, jsonMap) ==
    IF MapGet(jsonMap, key) = <<>>
    THEN Err(<<"i", "n", "v", "a", "l", "i", "d", " ", "q", "u", "e", "r", "y", " ", "p", "a", "r", "a", "m", "e", "t", "e", "r", ":", " ">> \o key)
    ELSE NoErr

\* An int when the text parses as one, else a float64 when it parses as
\* one, else the text itself.
convertValueIfNumericKeepString(value) == StrV(value)

\* A variant that tries the float parse first.
convertValueIfNumericFloatFirst(value) ==
    IF ParseFloatOk(value) THEN FloatV(value)
    ELSE IF AtoiOk(value) THEN IntV(Atoi(value))
    ELSE StrV(value)

convertValueIfNumeric(value) ==
    IF AtoiOk(value) THEN IntV(Atoi(value))
    ELSE IF ParseFloatOk(value) THEN FloatV(value)
    ELSE StrV(value)

\* A variant that looks for _lt and _gt anywhere in the key, so that a
\* _lte or _gte key is read as _lt or _gt.
SuffixOfAnywhere(key) ==
    IF HasSuffix(key, <<"_", "n", "e">>) THEN [op |-> <<"!", "=">>, suffix |-> <<"_", "n", "e">>]
    ELSE IF Contains(key, <<"_", "l", "t">>) THEN [op |-> <<"<">>, suffix |-> <<"_", "l", "t">>]
    ELSE IF Contains(key, <<"_", "g", "t">>) THEN [op |-> <<">">>, suffix |-> <<"_", "g", "t">>]
    ELSE IF HasSuffix(key, <<"_", "c", "o", "n", "t", "a", "i", "n", "s">>)
    THEN [op |-> <<"L", "I", "K", "E">>, suffix |-> <<"_", "c", "o", "n", "t", "a", "i", "n", "s">>]
    ELSE IF HasSuffix(key, <<"_", "a", "n", "y", "O", "f">>) THEN [op |-> <<"I", "N">>, suffix |-> <<"_", "a", "n", "y", "O", "f">>]
    ELSE [op |-> <<"=">>, suffix |-> <<>>]

\* The operator of a key's suffix and the key without it.  The tests run
\* in the order of the code's else-if chain.
SuffixOf(key) ==
    IF HasSuffix(key, <<"_", "n", "e">>) THEN [op |-> <<"!", "=">>, suffix |-> <<"_", "n", "e">>]
    ELSE IF HasSuffix(key, <<"_", "l", "t">>) THEN [op |-> <<"<">>, suffix |-> <<"_", "l", "t">>]
    ELSE IF HasSuffix(key, <<"_", "g", "t">>) THEN [op |-> <<">">>, suffix |-> <<"_", "g", "t">>]
    ELSE IF HasSuffix(key, <<"_", "l", "t", "e">>) THEN [op |-> <<"<", "=">>, suffix |-> <<"_", "l", "t", "e">>]
    ELSE IF HasSuffix(key, <<"_", "g", "t", "e">>) THEN [op |-> <<">", "=">>, suffix |-> <<"_", "g", "t", "e">>]
    ELSE IF HasSuffix(key, <<"_", "c", "o", "n", "t", "a", "i", "n", "s">>)
    THEN [op |-> <<"L", "I", "K", "E">>, suffix |-> <<"_", "c", "o", "n", "t", "a", "i", "n", "s">>]
    ELSE IF HasSuffix(key, <<"_", "a", "n", "y", "O", "f">>) THEN [op |-> <<"I", "N">>, suffix |-> <<"_", "a", "n", "y", "O", "f">>]
    ELSE [op |-> <<"=">>, suffix |-> <<>>]

\* The first definition is a builder that writes the value where the
\* column belongs.
parseOperatorAndKeyInline(key, value, jsonMap) ==
    [err |-> NoErr, operator |-> <<"=">>, dbColumn |-> value,
     modifiedValue |-> value]

parseOperatorAndKey(key, value, jsonMap) ==
    Only({
        LET stripped == TrimSuffix(key, sx.suffix)
            modifiedValue ==
                IF sx.op = <<"L", "I", "K", "E">> THEN <<"%">> \o value \o <<"%">> ELSE value
            verr == validateQueryParam(stripped, jsonMap)
        IN  IF ~verr.nil
            THEN [err |-> verr, operator |-> <<>>, dbColumn |-> <<>>,
                  modifiedValue |-> <<>>]
            ELSE [err |-> NoErr, operator |-> sx.op,
                  dbColumn |-> MapGet(jsonMap, stripped),
                  modifiedValue |-> modifiedValue] :
        sx \in {SuffixOf(key)}})

\* A WHERE part is kept with what its text says: the column and the
\* operator, which is what the store reads from it.
WherePart(text, col, op) == [op |-> op, text |-> text, col |-> col]

\* The placeholder of the n-th bind value; the first definition numbers
\* from zero.
PlaceholderFromZero(n) == <<"$">> \o Itoa(n - 1)

Placeholder(n) == <<"$">> \o Itoa(n)

\* A variant that counts one placeholder for the whole list.
handleInOperatorOneSlot(key, value, phIndex, whereClauseParts, values, jsonMap) ==
    Only({
        LET n == Len(anyOfValuesList)
            placeholders == [i \in 1..n |-> Placeholder(phIndex + i - 1)]
            dbColumn == MapGet(jsonMap, TrimSuffix(key, <<"_", "a", "n", "y", "O", "f">>))
        IN  [parts |-> Append(whereClauseParts,
                         WherePart(dbColumn \o <<" ", "I", "N", " ", "(">> \o
                                       Join(placeholders, <<",">>) \o <<")">>,
                                   dbColumn, <<"I", "N">>)),
             err |-> validateQueryParam(TrimSuffix(key, <<"_", "a", "n", "y", "O", "f">>), jsonMap),
             phIndex |-> phIndex + 1,
             values |-> values \o
                        [i \in 1..n |-> convertValueIfNumeric(anyOfValuesList[i])]] :
        anyOfValuesList \in {Split(value, ",")}})

handleInOperator(key, value, phIndex, whereClauseParts, values, jsonMap) ==
    Only({
        LET n == Len(anyOfValuesList)
            placeholders == [i \in 1..n |-> Placeholder(phIndex + i - 1)]
            newValues ==
                values \o
                [i \in 1..n |-> convertValueIfNumeric(anyOfValuesList[i])]
            stripped == TrimSuffix(key, <<"_", "a", "n", "y", "O", "f">>)
            verr == validateQueryParam(stripped, jsonMap)
            dbColumn == MapGet(jsonMap, stripped)
        IN  IF ~verr.nil
            THEN [parts |-> <<>>, err |-> verr, phIndex |-> 0, values |-> <<>>]
            ELSE [parts |-> Append(whereClauseParts,
                              WherePart(dbColumn \o <<" ", "I", "N", " ", "(">> \o
                                            Join(placeholders, <<",">>) \o <<")">>,
                                        dbColumn, <<"I", "N">>)),
                  err |-> NoErr,
                  phIndex |-> phIndex + n,
                  values |-> newValues] :
        anyOfValuesList \in {Split(value, ",")}})

\* The range loop of buildWhereClause over the keys in the visiting order.
RECURSIVE WhereLoop(_, _, _, _, _, _)
WhereLoop(queryParams, order, jsonMap, parts, values, phIndex) ==
    IF Len(order) = 0
    THEN [parts |-> parts,
          err |-> NoErr,
          phIndex |-> phIndex,
          values |-> values]
    ELSE LET key == Head(order)
             value == queryParams[key]
         IN  IF key \in ReservedKeys
             THEN WhereLoop(queryParams, Tail(order), jsonMap,
                            parts, values, phIndex)
             ELSE Only({
                      IF ~p.err.nil
                      THEN [parts |-> <<>>,
                            err |-> p.err,
                            phIndex |-> 0,
                            values |-> <<>>]
                      ELSE IF p.operator = <<"I", "N">>
                      THEN Only({
                               IF ~h.err.nil THEN h
                               ELSE WhereLoop(queryParams, Tail(order),
                                        jsonMap, h.parts, h.values, h.phIndex) :
                               h \in {handleInOperator(key, p.modifiedValue,
                                          phIndex, parts, values, jsonMap)}})
                      ELSE WhereLoop(queryParams, Tail(order), jsonMap,
                               Append(parts,
                                   WherePart(p.dbColumn \o <<" ">> \o p.operator
                                                 \o <<" ">> \o Placeholder(phIndex),
                                             p.dbColumn, p.operator)),
                               Append(values,
                                   convertValueIfNumeric(p.modifiedValue)),
                               phIndex + 1) :
                      p \in {parseOperatorAndKey(key, value, jsonMap)}})

buildWhereClause(queryParams, order, phIndex, jsonMap) ==
    Only({
        IF ~loop.err.nil
        THEN [parts |-> <<>>,
              err |-> loop.err,
              values |-> <<>>,
              whereClause |-> <<>>,
              placeholderIndex |-> 0]
        ELSE [parts |-> loop.parts,
              err |-> NoErr,
              values |-> loop.values,
              whereClause |->
                  IF Len(loop.parts) > 0
                  THEN <<"W", "H", "E", "R", "E", " ">> \o
                       Join([i \in 1..Len(loop.parts) |-> loop.parts[i].text],
                            <<" ", "A", "N", "D", " ">>)
                  ELSE <<>>,
              placeholderIndex |-> loop.phIndex] :
        loop \in {WhereLoop(queryParams, order, jsonMap, <<>>, <<>>, phIndex)}})

\* The first definition sorts by id descending whatever is asked.
buildSortingClauseDescending(queryParams, jsonMap) ==
    [err |-> NoErr, order |-> <<"D", "E", "S", "C">>, sort |-> <<"i", "d">>]

\* A variant that does not validate the sort name.
buildSortingClauseUnchecked(queryParams, jsonMap) ==
    LET given == IF <<"s", "o", "r", "t", "B", "y">> \in DOMAIN queryParams
                 THEN queryParams[<<"s", "o", "r", "t", "B", "y">>] ELSE <<>>
        desc == HasPrefix(given, <<"-">>)
        trimmed == IF desc THEN TrimPrefix(given, <<"-">>) ELSE given
        sort == IF trimmed = <<>> THEN <<"i", "d">> ELSE trimmed
    IN  [err |-> NoErr,
         order |-> IF desc THEN <<"D", "E", "S", "C">> ELSE <<"A", "S", "C">>,
         sort |-> MapGet(jsonMap, sort)]

\* A variant that never sets the descending order.
buildSortingClauseAscending(queryParams, jsonMap) ==
    LET given == IF <<"s", "o", "r", "t", "B", "y">> \in DOMAIN queryParams
                 THEN queryParams[<<"s", "o", "r", "t", "B", "y">>] ELSE <<>>
        trimmed == TrimPrefix(given, <<"-">>)
        sort == IF trimmed = <<>> THEN <<"i", "d">> ELSE trimmed
    IN  IF ~validateQueryParam(sort, jsonMap).nil
        THEN [err |-> Err(<<"i", "n", "v", "a", "l", "i", "d", " ", "s", "o", "r", "t", " ", "v", "a", "l", "u", "e", ":", " ">> \o sort),
              order |-> <<>>,
              sort |-> <<>>]
        ELSE [err |-> NoErr, order |-> <<"A", "S", "C">>, sort |-> MapGet(jsonMap, sort)]

buildSortingClause(queryParams, jsonMap) ==
    LET given == IF <<"s", "o", "r", "t", "B", "y">> \in DOMAIN queryParams
                 THEN queryParams[<<"s", "o", "r", "t", "B", "y">>] ELSE <<>>
        desc == HasPrefix(given, <<"-">>)
        trimmed == IF desc THEN TrimPrefix(given, <<"-">>) ELSE given
        sort == IF trimmed = <<>> THEN <<"i", "d">> ELSE trimmed
    IN  IF ~validateQueryParam(sort, jsonMap).nil
        THEN [err |-> Err(<<"i", "n", "v", "a", "l", "i", "d", " ", "s", "o", "r", "t", " ", "v", "a", "l", "u", "e", ":", " ">> \o sort),
              order |-> <<>>,
              sort |-> <<>>]
        ELSE [err |-> NoErr,
              order |-> IF desc THEN <<"D", "E", "S", "C">> ELSE <<"A", "S", "C">>,
              sort |-> MapGet(jsonMap, sort)]

\* The error of strconv.Atoi, which quotes the text it was given.
AtoiErr(s) ==
    <<"s", "t", "r", "c", "o", "n", "v", ".", "A", "t", "o", "i", ":", " ", "p", "a", "r", "s", "i", "n", "g", " ">> \o <<"\"">> \o s \o <<"\"">> \o
    <<":", " ", "i", "n", "v", "a", "l", "i", "d", " ", "s", "y", "n", "t", "a", "x">>

\* A variant that keeps the default when the text is no integer.
buildPaginationClauseLenient(queryParams) ==
    [err |-> NoErr,
     limit |-> IF <<"l", "i", "m", "i", "t">> \in DOMAIN queryParams /\ AtoiOk(queryParams[<<"l", "i", "m", "i", "t">>])
               THEN Atoi(queryParams[<<"l", "i", "m", "i", "t">>]) ELSE DefaultLimit,
     offset |-> IF <<"o", "f", "f", "s", "e", "t">> \in DOMAIN queryParams
                   /\ AtoiOk(queryParams[<<"o", "f", "f", "s", "e", "t">>])
                THEN Atoi(queryParams[<<"o", "f", "f", "s", "e", "t">>]) ELSE DefaultOffset]

buildPaginationClause(queryParams) ==
    LET hasLimit == <<"l", "i", "m", "i", "t">> \in DOMAIN queryParams
        hasOffset == <<"o", "f", "f", "s", "e", "t">> \in DOMAIN queryParams
    IN  IF hasLimit /\ ~AtoiOk(queryParams[<<"l", "i", "m", "i", "t">>])
        THEN [err |-> Err(<<"p", "a", "g", "i", "n", "a", "t", "i", "o", "n", " ", "e", "r", "r", ";", " ", "l", "i", "m", "i", "t", " ", "m", "u", "s", "t", " ", "b", "e", " ", "a", " ", "n", "u", "m", "b", "e", "r", ":", " ">>
                          \o AtoiErr(queryParams[<<"l", "i", "m", "i", "t">>])),
              limit |-> 0, offset |-> 0]
        ELSE IF hasOffset /\ ~AtoiOk(queryParams[<<"o", "f", "f", "s", "e", "t">>])
        THEN [err |-> Err(<<"p", "a", "g", "i", "n", "a", "t", "i", "o", "n", " ", "e", "r", "r", ";", " ", "o", "f", "f", "s", "e", "t", " ", "m", "u", "s", "t", " ", "b", "e", " ", "a", " ", "n", "u", "m", "b", "e", "r", ":", " ">>
                          \o AtoiErr(queryParams[<<"o", "f", "f", "s", "e", "t">>])),
              limit |-> 0, offset |-> 0]
        ELSE [err |-> NoErr,
              limit |-> IF hasLimit THEN Atoi(queryParams[<<"l", "i", "m", "i", "t">>])
                        ELSE DefaultLimit,
              offset |-> IF hasOffset THEN Atoi(queryParams[<<"o", "f", "f", "s", "e", "t">>])
                         ELSE DefaultOffset]

\* What a failed build returns: "", nil and the error.
NoClauses(err) ==
    [parts |-> <<>>,
     err |-> err,
     values |-> <<>>,
     order |-> <<>>,
     sort |-> <<>>,
     clauses |-> <<>>,
     pagination |-> <<>>]

\* A variant that looks at the stages from the last to the first.
buildQueryClausesPageFirst(queryParams, order, m) ==
    LET jsonMap == MapJsonTagsToDB(m)
    IN  Only({
        IF ~p.err.nil THEN NoClauses(p.err)
        ELSE IF ~s.err.nil THEN NoClauses(s.err)
        ELSE IF ~w.err.nil THEN NoClauses(w.err)
        ELSE LET placeholderIndex == w.placeholderIndex
                 orderClause == <<"O", "R", "D", "E", "R", " ", "B", "Y", " ">> \o s.sort \o <<" ">> \o s.order
                 paginationClause ==
                     <<"L", "I", "M", "I", "T", " ">> \o Placeholder(placeholderIndex) \o
                     <<" ", "O", "F", "F", "S", "E", "T", " ">> \o Placeholder(placeholderIndex + 1)
             IN  [parts |-> w.parts,
                  err |-> NoErr,
                  values |-> w.values \o <<IntV(p.limit), IntV(p.offset)>>,
                  order |-> s.order,
                  sort |-> s.sort,
                  clauses |->
                      IF w.whereClause # <<>>
                      THEN w.whereClause \o <<" ">> \o orderClause \o <<" ">>
                               \o paginationClause
                      ELSE orderClause \o <<" ">> \o paginationClause,
                  pagination |-> paginationClause] :
        w \in {buildWhereClause(queryParams, order, 1, jsonMap)},
        s \in {buildSortingClause(queryParams, jsonMap)},
        p \in {buildPaginationClause(queryParams)}})

buildQueryClauses(queryParams, order, m) ==
    LET jsonMap == MapJsonTagsToDB(m)
    IN  Only({
        IF ~w.err.nil THEN NoClauses(w.err)
        ELSE IF ~s.err.nil THEN NoClauses(s.err)
        ELSE IF ~p.err.nil THEN NoClauses(p.err)
        ELSE LET placeholderIndex == w.placeholderIndex
                 orderClause == <<"O", "R", "D", "E", "R", " ", "B", "Y", " ">> \o s.sort \o <<" ">> \o s.order
                 paginationClause ==
                     <<"L", "I", "M", "I", "T", " ">> \o Placeholder(placeholderIndex) \o
                     <<" ", "O", "F", "F", "S", "E", "T", " ">> \o Placeholder(placeholderIndex + 1)
             IN  [parts |-> w.parts,
                  err |-> NoErr,
                  values |-> w.values \o <<IntV(p.limit), IntV(p.offset)>>,
                  order |-> s.order,
                  sort |-> s.sort,
                  clauses |->
                      IF w.whereClause # <<>>
                      THEN w.whereClause \o <<" ">> \o orderClause \o <<" ">>
                               \o paginationClause
                      ELSE orderClause \o <<" ">> \o paginationClause,
                  pagination |-> paginationClause] :
        w \in {buildWhereClause(queryParams, order, 1, jsonMap)},
        s \in {buildSortingClause(queryParams, jsonMap)},
        p \in {buildPaginationClause(queryParams)}})

-----------------------------------------------------------------------------
(* The relational store behind database/sql.  Each table has an id column  *)
(* filled from a sequence and a created_at column filled from the clock    *)
(* (id SERIAL PRIMARY KEY, created_at ... DEFAULT NOW()); users.email is    *)
(* UNIQUE and events.user_id REFERENCES users(id) ON DELETE CASCADE.        *)
(* A bind parameter must have the type of the column it is compared with   *)
(* or stored in; the store reports an error otherwise.                     *)

StoredTypes == {"User", "Event"}

ColumnKind(T, col) ==
    Fields(T)[CHOOSE i \in 1..Len(Fields(T)) : Fields(T)[i].db = col].kind

HasColumn(T, col) == \E i \in 1..Len(Fields(T)) : Fields(T)[i].db = col

Ids(tbls, T) == DOMAIN tbls[T]

\* The constraints of the schema on a row about to be stored under id.
ViolatesConstraint(tbls, T, id, row) ==
    \/ /\ T = "User"
       /\ \E other \in Ids(tbls, T) \ {id} : tbls[T][other][<<"e", "m", "a", "i", "l">>] = row[<<"e", "m", "a", "i", "l">>]
    \/ /\ T = "Event"
       /\ row[<<"u", "s", "e", "r", "_", "i", "d">>].i \notin Ids(tbls, "User")

BindsFit(T, cols, vals) ==
    /\ Len(cols) = Len(vals)
    /\ \A i \in 1..Len(cols) :
          HasColumn(T, cols[i]) /\ vals[i].t = ColumnKind(T, cols[i])

\* INSERT INTO t (cols) VALUES (vals) RETURNING id.  The id sequence is
\* advanced even when a constraint then rejects the row.
\* The first definition has no default for created_at: the column keeps
\* the zero time.
GivenColumns(cols, vals) ==
    [c \in {cols[i] : i \in 1..Len(cols)} |->
        vals[CHOOSE i \in 1..Len(cols) : cols[i] = c]]

DbInsertNoDefault(tbls, sq, clock, T, cols, vals) ==
    IF ~BindsFit(T, cols, vals)
    THEN [tables |-> tbls,
          seqs |-> sq,
          now |-> clock,
          err |-> Err(DriverErr),
          id |-> 0]
    ELSE Only({
             IF ViolatesConstraint(tbls, T, sq[T], row)
             THEN [tables |-> tbls,
                   seqs |-> [sq EXCEPT ![T] = @ + 1],
                   now |-> clock,
                   err |-> Err(DriverErr),
                   id |-> 0]
             ELSE [tables |-> [tbls EXCEPT ![T] =
                                  [k \in Ids(tbls, T) \cup {sq[T]} |->
                                      IF k = sq[T] THEN row ELSE tbls[T][k]]],
                   seqs |-> [sq EXCEPT ![T] = @ + 1],
                   now |-> clock + 1,
                   err |-> NoErr,
                   id |-> sq[T]] :
             row \in {[c \in {Fields(T)[i].db : i \in 1..Len(Fields(T))} |->
                         IF c = <<"i", "d">> THEN IntV(sq[T])
                         ELSE IF c = <<"c", "r", "e", "a", "t", "e", "d", "_", "a", "t">> THEN TimeV(0)
                         ELSE GivenColumns(cols, vals)[c]]}})

\* A variant that leaves the id sequence where it was, so that the next
\* INSERT is given the same id.
DbInsertSameId(tbls, sq, clock, T, cols, vals) ==
    Only({[r EXCEPT !.seqs = sq] :
            r \in {DbInsertNoDefault(tbls, sq, clock, T, cols, vals)}})

\* A variant that stores the row before it reports that it is rejected.
DbInsertThenReject(tbls, sq, clock, T, cols, vals) ==
    [tables |-> [tbls EXCEPT ![T] =
                    [k \in Ids(tbls, T) \cup {sq[T]} |->
                        IF k # sq[T] THEN tbls[T][k]
                        ELSE [c \in {Fields(T)[i].db :
                                       i \in 1..Len(Fields(T))} |->
                                 IF c = <<"i", "d">> THEN IntV(sq[T])
                                 ELSE IF c = <<"c", "r", "e", "a", "t", "e", "d", "_", "a", "t">> THEN TimeV(clock)
                                 ELSE GivenColumns(cols, vals)[c]]]],
     seqs |-> [sq EXCEPT ![T] = @ + 1],
     now |-> clock,
     err |-> Err(DriverErr),
     id |-> 0]

DbInsert(tbls, sq, clock, T, cols, vals) ==
    IF ~BindsFit(T, cols, vals)
    THEN [tables |-> tbls,
          seqs |-> sq,
          now |-> clock,
          err |-> Err(DriverErr),
          id |-> 0]
    ELSE Only({
             LET usesSeq == <<"i", "d">> \notin DOMAIN given
                 id == IF usesSeq THEN sq[T] ELSE given[<<"i", "d">>].i
                 sq2 == IF usesSeq THEN [sq EXCEPT ![T] = @ + 1] ELSE sq
             IN  Only({
                     IF \/ id \in Ids(tbls, T)
                        \/ ViolatesConstraint(tbls, T, id, row)
                        \/ \E c \in DOMAIN row : row[c] = NilV
                     THEN [tables |-> tbls,
                           seqs |-> sq2,
                           now |-> clock,
                           err |-> Err(DriverErr),
                           id |-> 0]
                     ELSE [tables |-> [tbls EXCEPT ![T] =
                                          [k \in Ids(tbls, T) \cup {id} |->
                                              IF k = id THEN row
                                              ELSE tbls[T][k]]],
                           seqs |-> sq2,
                           now |-> clock + 1,
                           err |-> NoErr,
                           id |-> id] :
                     row \in {[c \in {Fields(T)[i].db :
                                        i \in 1..Len(Fields(T))} |->
                                 IF c \in DOMAIN given THEN given[c]
                                 ELSE IF c = <<"i", "d">> THEN IntV(id)
                                 ELSE IF c = <<"c", "r", "e", "a", "t", "e", "d", "_", "a", "t">> THEN TimeV(clock)
                                 ELSE NilV]}}) :
             given \in {GivenColumns(cols, vals)}})

\* A variant that reports an id that matches no row.
DbUpdateStrict(tbls, T, cols, vals, idVal) ==
    IF idVal.i \in Ids(tbls, T) THEN [tables |-> tbls, err |-> NoErr]
    ELSE [tables |-> tbls, err |-> Err(ErrNoRows)]

\* UPDATE t SET cols = vals WHERE id = idVal.  No row with that id: nothing
\* is updated and nothing is reported.
DbUpdate(tbls, T, cols, vals, idVal) ==
    IF ~BindsFit(T, cols, vals) \/ idVal.t # "int"
    THEN [tables |-> tbls, err |-> Err(DriverErr)]
    ELSE IF idVal.i \notin Ids(tbls, T)
    THEN [tables |-> tbls, err |-> NoErr]
    ELSE Only({
             IF \/ ViolatesConstraint(tbls, T, idVal.i, row)
                \/ row[<<"i", "d">>].i # idVal.i
             THEN [tables |-> tbls, err |-> Err(DriverErr)]
             ELSE [tables |-> [tbls EXCEPT ![T][idVal.i] = row],
                   err |-> NoErr] :
             row \in {[c \in DOMAIN tbls[T][idVal.i] |->
                         IF \E i \in 1..Len(cols) : cols[i] = c
                         THEN vals[CHOOSE i \in 1..Len(cols) : cols[i] = c]
                         ELSE tbls[T][idVal.i][c]]}})

\* The events that go with a deleted user (ON DELETE CASCADE).
CascadedEvents(tbls, T, id) ==
    IF T = "User" /\ id \in Ids(tbls, T)
    THEN {e \in Ids(tbls, "Event") : tbls["Event"][e][<<"u", "s", "e", "r", "_", "i", "d">>].i = id}
    ELSE {}

Without(rows, gone) == [k \in (DOMAIN rows) \ gone |-> rows[k]]

\* DELETE FROM t WHERE id = idVal.
DbDeleteNothing(tbls, T, idVal) == [tables |-> tbls, err |-> NoErr]

\* A variant without the WHERE condition.
DbDeleteEveryRow(tbls, T, idVal) ==
    [tables |-> [tbls EXCEPT ![T] = <<>>], err |-> NoErr]

DbDelete(tbls, T, idVal) ==
    IF idVal.t # "int"
    THEN [tables |-> tbls, err |-> Err(DriverErr)]
    ELSE LET cascade == CascadedEvents(tbls, T, idVal.i)
             t1 == [tbls EXCEPT ![T] = Without(@, {idVal.i})]
         IN  [tables |-> [t1 EXCEPT !["Event"] = Without(@, cascade)],
              err |-> NoErr]

SelectCols(T, row, cols) == [i \in 1..Len(cols) |-> row[cols[i]]]

\* SELECT cols FROM t WHERE id = idVal, as a *sql.Row.
DbQueryRow(tbls, T, cols, idVal) ==
    IF \/ idVal.t # "int"
       \/ \E i \in 1..Len(cols) : ~HasColumn(T, cols[i])
    THEN [cols |-> <<>>, err |-> Err(DriverErr), found |-> FALSE]
    ELSE IF idVal.i \notin Ids(tbls, T)
    THEN [cols |-> <<>>, err |-> NoErr, found |-> FALSE]
    ELSE [cols |-> SelectCols(T, tbls[T][idVal.i], cols),
          err |-> NoErr,
          found |-> TRUE]

\* s LIKE pattern: % stands for any run of characters, _ for any one.
RECURSIVE Like(_, _)
Like(s, p) ==
    IF Len(p) = 0 THEN Len(s) = 0
    ELSE IF p[1] = "%"
    THEN \E k \in 0..Len(s) : Like(SubSeq(s, k + 1, Len(s)), Tail(p))
    ELSE /\ Len(s) > 0
         /\ p[1] = "_" \/ p[1] = s[1]
         /\ Like(Tail(s), Tail(p))

\* The order of two values of one type.
ValLess(a, b) == IF a.t = "str" THEN StrLess(a.s, b.s) ELSE a.i < b.i

\* column op bind, for two values of the same type.
Compare(colVal, op, bind) ==
    CASE op = <<"=">> -> colVal = bind
      [] op = <<"!", "=">> -> colVal # bind
      [] op = <<"<">> -> ValLess(colVal, bind)
      [] op = <<">">> -> ValLess(bind, colVal)
      [] op = <<"<", "=">> -> ~ValLess(bind, colVal)
      [] op = <<">", "=">> -> ~ValLess(colVal, bind)
      [] op = <<"L", "I", "K", "E">> -> Like(colVal.s, bind.s)

\* Whether the store accepts a WHERE part with the given bind values:
\* its placeholders are bound, and to values of the column's type.
PartFits(T, part, values) ==
    /\ HasColumn(T, part.col)
    /\ \A k \in 1..Len(PlaceholdersIn(part.text)) :
          /\ PlaceholdersIn(part.text)[k] \in 1..Len(values)
          /\ values[PlaceholdersIn(part.text)[k]].t = ColumnKind(T, part.col)
    /\ Len(PlaceholdersIn(part.text)) >= 1
    /\ part.op # <<"I", "N">> => Len(PlaceholdersIn(part.text)) = 1
    /\ part.op = <<"L", "I", "K", "E">> => ColumnKind(T, part.col) = "str"

PartHolds(row, part, values) ==
    \E phs \in {PlaceholdersIn(part.text)} :
        IF part.op = <<"I", "N">>
        THEN \E i \in 1..Len(phs) : row[part.col] = values[phs[i]]
        ELSE Compare(row[part.col], part.op, values[phs[1]])

\* Every arrangement of the ids in the order of the sort column; rows that
\* agree on the sort column come in any order.
RECURSIVE SortedSeqs(_, _, _, _)
SortedSeqs(rows, ids, col, desc) ==
    IF ids = {} THEN {<<>>}
    ELSE LET first == {x \in ids : \A y \in ids :
                          IF desc THEN ~ValLess(rows[x][col], rows[y][col])
                          ELSE ~ValLess(rows[y][col], rows[x][col])}
         IN  UNION {{<<x>> \o rest :
                       rest \in SortedSeqs(rows, ids \ {x}, col, desc)} :
                    x \in first}

Min(a, b) == IF a < b THEN a ELSE b
Max(a, b) == IF a > b THEN a ELSE b

\* OFFSET offset LIMIT limit of a sequence.
Page(seq, limit, offset) ==
    SubSeq(seq, offset + 1, Min(Len(seq), offset + limit))

\* The placeholders of LIMIT $l OFFSET $o.
PagePlaceholders(plan) == PlaceholdersIn(plan.pagination)

\* SELECT cols FROM t WHERE parts ORDER BY sort order LIMIT $l OFFSET $o: the
\* result sets the store may deliver, or an error.  The store refuses a
\* statement that names an unknown column, binds a value of another type
\* than the column's, leaves a bind value unused or a placeholder unbound,
\* or asks for a negative LIMIT or OFFSET.
DbQuery(tbls, T, cols, plan, values) ==
    IF \E pp \in {PagePlaceholders(plan)} :
          ~ /\ \A i \in 1..Len(cols) : HasColumn(T, cols[i])
            /\ \A i \in 1..Len(plan.parts) : PartFits(T, plan.parts[i], values)
            /\ HasColumn(T, plan.sort)
            /\ Len(pp) = 2
            /\ \A k \in 1..2 : /\ pp[k] \in 1..Len(values)
                               /\ values[pp[k]].t = "int"
                               /\ values[pp[k]].i >= 0
            /\ \A k \in 1..Len(values) :
                  \/ k \in {pp[1], pp[2]}
                  \/ \E i \in 1..Len(plan.parts) :
                        \E j \in 1..Len(PlaceholdersIn(plan.parts[i].text)) :
                            PlaceholdersIn(plan.parts[i].text)[j] = k
    THEN {[err |-> Err(DriverErr), rows |-> <<>>]}
    ELSE UNION {
           {[err |-> NoErr,
             rows |-> [i \in 1..Len(pg) |->
                          SelectCols(T, tbls[T][pg[i]], cols)]] :
            pg \in {Page(sorted, values[pp[1]].i, values[pp[2]].i) :
                    sorted \in SortedSeqs(tbls[T],
                                  {id \in DOMAIN tbls[T] :
                                      \A i \in 1..Len(plan.parts) :
                                          PartHolds(tbls[T][id], plan.parts[i],
                                                    values)},
                                  plan.sort, plan.order = <<"D", "E", "S", "C">>)}} :
           pp \in {PagePlaceholders(plan)}}

(***************************************************************************)
(* The JSON helpers of the API.  A response writer is [wroteHeader, code,  *)
(* contentType, body]: whether WriteHeader was called and with which code, *)
(* the Content-Type header and the bytes written.  A payload is an         *)
(* envelope, [kind |-> "errorJSON", status, message] or [kind |->          *)
(* "successJSON", status, data], or a value of another Go type [kind |->   *)
(* "other", goType].  The data of a success envelope is [ok, json]: whether *)
(* json.Marshal takes it, and its encoding.                                *)
(***************************************************************************)

\* httptest.NewRecorder(): nothing written yet.
NewRecorder ==
    [body |-> <<>>, wroteHeader |-> FALSE, code |-> 0, contentType |-> <<>>]

\* The encoding of a string by json.Marshal: quoted, with the quote, the
\* backslash, the newline and the HTML characters escaped.
RECURSIVE jsonString(_)
jsonString(s) ==
    LET esc(c) ==
            CASE c = "\"" -> <<"\\", "\"">>
              [] c = "\\" -> <<"\\", "\\">>
              [] c = "\n" -> <<"\\", "n">>
              [] c = "<" -> <<"\\">> \o <<"u", "0", "0", "3", "c">>
              [] c = ">" -> <<"\\">> \o <<"u", "0", "0", "3", "e">>
              [] c = "&" -> <<"\\">> \o <<"u", "0", "0", "2", "6">>
              [] OTHER -> <<c>>
        RECURSIVE body(_)
        body(t) == IF t = <<>> THEN <<>> ELSE esc(Head(t)) \o body(Tail(t))
    IN  <<"\"">> \o body(s) \o <<"\"">>

\* json.Marshal of an envelope: its fields in declaration order.
jsonMarshal(jsonRes) ==
    LET key(k) == <<"\"">> \o k \o <<"\"">> \o <<":">>
    IN  IF jsonRes.kind = "errorJSON"
        THEN [err |-> NoErr,
              payload |-> <<"{">> \o key(<<"s", "t", "a", "t", "u", "s">>) \o jsonString(jsonRes.status)
                          \o <<",">> \o key(<<"m", "e", "s", "s", "a", "g", "e">>)
                          \o jsonString(jsonRes.message) \o <<"}">>]
        ELSE IF jsonRes.data.ok
        THEN [err |-> NoErr,
              payload |-> <<"{">> \o key(<<"s", "t", "a", "t", "u", "s">>) \o jsonString(jsonRes.status)
                          \o <<",">> \o key(<<"d", "a", "t", "a">>) \o jsonRes.data.json
                          \o <<"}">>]
        ELSE [err |-> Err(<<"j", "s", "o", "n", ":", " ", "u", "n", "s", "u", "p", "p", "o", "r", "t", "e", "d", " ", "t", "y", "p", "e", ":", " ", "c", "h", "a", "n", " ", "i", "n", "t">>),
              payload |-> <<>>]

\* A variant that sends whatever it is given.
marshalAndSendAnything(w, jsonRes, statusCode, fail) ==
    [err |-> NoErr,
     w |-> [body |-> <<>>,
            wroteHeader |-> TRUE,
            code |-> statusCode,
            contentType |-> <<"a", "p", "p", "l", "i", "c", "a", "t", "i", "o", "n", "/", "j", "s", "o", "n">>]]

\* marshalAndSend(w, jsonRes, statusCode): an envelope is encoded, the
\* header is set and written and the body sent; `fail` = "write" is the
\* connection failing under w.Write.
marshalAndSend(w, jsonRes, statusCode, fail) ==
    IF jsonRes.kind \in {"successJSON", "errorJSON"}
    THEN \* case successJSON, errorJSON
         Only({IF ~m.err.nil THEN [err |-> m.err, w |-> w]
               ELSE [err |-> IF fail = "write" THEN Err(DriverErr) ELSE NoErr,
                     w |-> [body |-> IF fail = "write" THEN w.body
                                     ELSE w.body \o m.payload,
                            wroteHeader |-> TRUE,
                            code |-> statusCode,
                            contentType |-> <<"a", "p", "p", "l", "i", "c", "a", "t", "i", "o", "n", "/", "j", "s", "o", "n">>]] :
                 m \in {jsonMarshal(jsonRes)}})
    ELSE [err |-> Err(<<"u", "n", "s", "u", "p", "p", "o", "r", "t", "e", "d", " ", "t", "y", "p", "e", ":", " ">> \o jsonRes.goType), w |-> w]

\* SendErrorJSON(w, statusCode, err)
SendErrorJSON(w, statusCode, err, fail) ==
    marshalAndSend(w,
                   [kind |-> "errorJSON",
                    status |-> IF statusCode >= 500 THEN <<"e", "r", "r", "o", "r">> ELSE <<"f", "a", "i", "l">>,
                    message |-> err.msg],
                   statusCode, fail)
-----------------------------------------------------------------------------
(* The CRUD engine (data/repository/repo.go).  Each call is one operator   *)
(* from the store's state and the arguments to what the call returns and   *)
(* the store's state after it.  `fail` is what the store's driver does     *)
(* during the call: "none", or a failure of "prepare", "exec" or "scan".   *)
(* `trace` lists the statement handles and result sets the call opens and  *)
(* closes, in order.                                                       *)

Db == [tables |-> tables, seqs |-> seqs, now |-> now]

SameDb(db, err) == [tables |-> db.tables, seqs |-> db.seqs, now |-> db.now, err |-> err]

\* Handles left open by a trace: opened and never closed.
Leaked(trace) ==
    Cardinality({i \in 1..Len(trace) : trace[i] \in {"stmt+", "rows+"}})
    - Cardinality({i \in 1..Len(trace) : trace[i] \in {"stmt-", "rows-"}})

\* The statement text of Create(m).
CreateQuery(m) ==
    LET vals == GetValsFromModel(m)
        placeholders == [i \in 1..Len(vals) |-> Placeholder(i)]
    IN  <<"I", "N", "S", "E", "R", "T", " ", "I", "N", "T", "O", " ">> \o TableName(m.type) \o <<" ", "(">> \o
        Join(GetColumnNames(m, TRUE), <<",", " ">>) \o <<")", " ", "V", "A", "L", "U", "E", "S", " ", "(">> \o
        Join(placeholders, <<",", " ">>) \o <<")", " ", "R", "E", "T", "U", "R", "N", "I", "N", "G", " ", "i", "d">>

\* Create(m): INSERT the values of the fields that are not readOnly and
\* return the generated id.
Create(db, m, fail) ==
    Only({
        IF fail = "prepare"
        THEN [db |-> db,
              cols |-> cols,
              err |-> Err(<<"e", "r", "r", "o", "r", " ", "p", "r", "e", "p", "a", "r", "i", "n", "g", " ", "q", "u", "e", "r", "y", ":", " ">> \o DriverErr),
              id |-> 0,
              trace |-> <<>>,
              binds |-> <<>>,
              query |-> CreateQuery(m)]
        ELSE Only({
                 [db |-> [tables |-> ins.tables, seqs |-> ins.seqs,
                          now |-> ins.now],
                  cols |-> cols,
                  err |-> IF ins.err.nil THEN NoErr
                          ELSE Err(<<"e", "r", "r", "o", "r", " ", "e", "x", "e", "c", "u", "t", "i", "n", "g", " ", "q", "u", "e", "r", "y", ":", " ">> \o ins.err.msg),
                  id |-> IF ins.err.nil THEN ins.id ELSE 0,
                  trace |-> <<"stmt+", "rows+", "rows-", "stmt-">>,
                  binds |-> vals,
                  query |-> CreateQuery(m)] :
                 ins \in {IF fail = "none"
                          THEN DbInsert(db.tables, db.seqs, db.now, m.type,
                                        cols, vals)
                          ELSE SameDb(db, Err(DriverErr))}}) :
        vals \in {GetValsFromModel(m)}, cols \in {GetColumnNames(m, TRUE)}})

\* Update(m): overwrite every column that is not readOnly with the
\* record's field values, in the row whose id is the record's.
\* The first definition leaves the columns of zero-valued fields alone.
UpdateSkipZero(db, m, fail) ==
    Only({
        Only({
            [db |-> [db EXCEPT !.tables = upd.tables],
             cols |-> [k \in 1..Len(ix) |-> allCols[ix[k]]],
             err |-> upd.err,
             trace |-> <<"stmt+", "stmt-">>,
             binds |-> [k \in 1..Len(ix) |-> allVals[ix[k]]]
                       \o <<IntV(GetID(m))>>,
             query |-> <<>>] :
            upd \in {IF fail = "none"
                     THEN DbUpdate(db.tables, m.type,
                                   [k \in 1..Len(ix) |-> allCols[ix[k]]],
                                   [k \in 1..Len(ix) |-> allVals[ix[k]]],
                                   IntV(GetID(m)))
                     ELSE [tables |-> db.tables, err |-> Err(DriverErr)]}}) :
        allCols \in {GetColumnNames(m, TRUE)},
        allVals \in {GetValsFromModel(m)},
        ix \in {SelectSeq([i \in 1..Len(GetValsFromModel(m)) |-> i],
                          LAMBDA i : GetValsFromModel(m)[i]
                                       # ZeroV(GetValsFromModel(m)[i].t))}})

\* The statement text of Update(m).
UpdateQuery(m) ==
    LET columns == GetColumnNames(m, TRUE)
        setClause == [i \in 1..Len(columns) |->
                         columns[i] \o <<" ", "=", " ">> \o Placeholder(i)]
    IN  <<"U", "P", "D", "A", "T", "E", " ">> \o TableName(m.type) \o <<" ", "S", "E", "T", " ">> \o
        Join(setClause, <<",", " ">>) \o <<" ", "W", "H", "E", "R", "E", " ", "i", "d", " ", "=", " ">> \o
        Placeholder(Len(columns) + 1)

Update(db, m, fail) ==
    Only({
        IF fail = "prepare"
        THEN [db |-> db,
              cols |-> columns,
              err |-> Err(<<"e", "r", "r", "o", "r", " ", "p", "r", "e", "p", "a", "r", "i", "n", "g", " ", "q", "u", "e", "r", "y", ":", " ">> \o DriverErr),
              trace |-> <<>>,
              binds |-> <<>>,
              query |-> UpdateQuery(m)]
        ELSE Only({
                 [db |-> [db EXCEPT !.tables = upd.tables],
                  cols |-> columns,
                  err |-> IF upd.err.nil THEN NoErr
                          ELSE Err(<<"e", "r", "r", "o", "r", " ", "e", "x", "e", "c", "u", "t", "i", "n", "g", " ", "q", "u", "e", "r", "y", ":", " ">> \o upd.err.msg),
                  trace |-> <<"stmt+", "stmt-">>,
                  binds |-> vals,
                  query |-> UpdateQuery(m)] :
                 upd \in {IF fail = "none"
                          THEN DbUpdate(db.tables, m.type, columns,
                                        SubSeq(vals, 1, Len(vals) - 1),
                                        vals[Len(vals)])
                          ELSE [tables |-> db.tables,
                                err |-> Err(DriverErr)]}}) :
        columns \in {GetColumnNames(m, TRUE)},
        vals \in {GetValsFromModel(m) \o <<IntV(GetID(m))>>}})

\* Delete(m): DELETE the row whose id is the record's.
DeleteQuery(m) == <<"D", "E", "L", "E", "T", "E", " ", "F", "R", "O", "M", " ">> \o TableName(m.type) \o <<" ", "W", "H", "E", "R", "E", " ", "i", "d", " ", "=", " ", "$", "1">>

Delete(db, m, fail) ==
    IF fail = "prepare"
    THEN [db |-> db,
          err |-> Err(DriverErr),
          trace |-> <<>>,
          binds |-> <<>>,
          query |-> DeleteQuery(m)]
    ELSE Only({
             [db |-> [db EXCEPT !.tables = del.tables],
              err |-> IF del.err.nil THEN NoErr
                      ELSE Err(<<"e", "r", "r", "o", "r", " ", "d", "e", "l", "e", "t", "i", "n", "g", " ", "r", "e", "c", "o", "r", "d", ":", " ">> \o del.err.msg),
              trace |-> <<"stmt+", "stmt-">>,
              binds |-> <<IntV(GetID(m))>>,
              query |-> DeleteQuery(m)] :
             del \in {IF fail = "none"
                      THEN DbDelete(db.tables, m.type, IntV(GetID(m)))
                      ELSE [tables |-> db.tables, err |-> Err(DriverErr)]}})

\* GetModelByID(m, id): SELECT every column of the row with that id and
\* scan it into m.  DB.QueryRow opens the result set; Row.Scan closes it.
GetModelByIDQuery(m) ==
    <<"S", "E", "L", "E", "C", "T", " ">> \o Join(GetColumnNames(m, FALSE), <<",", " ">>) \o <<" ", "F", "R", "O", "M", " ">> \o
    TableName(m.type) \o <<" ", "W", "H", "E", "R", "E", " ", "i", "d", " ", "=", " ", "$", "1">>

\* A variant that asks the database again when the driver failed.
QueryRowRetried(db, m, cols, id, fail) ==
    DbQueryRow(db.tables, m.type, cols, IntV(id))

\* What DB.QueryRow returns.
QueryRow(db, m, cols, id, fail) ==
    CASE fail \in {"prepare", "exec"} ->
            [cols |-> <<>>, err |-> Err(DriverErr), found |-> FALSE]
      [] fail = "scan" ->
            [cols |-> <<>>, err |-> Err(DriverErr), found |-> TRUE]
      [] OTHER -> DbQueryRow(db.tables, m.type, cols, IntV(id))

GetModelByID(db, m, id, fail) ==
    Only({
        Only({
            LET opened == fail = "scan" \/ (fail = "none" /\ r.err.nil)
            IN  [model |-> IF sc.err.nil THEN Model(m.type, m.ptr, sc.f)
                           ELSE m,
                 slots |-> IF m.ptr THEN FieldPtrs(m.type) ELSE <<>>,
                 cols |-> cols,
                 err |-> sc.err,
                 isNil |-> ~sc.err.nil,
                 given |-> Model(m.type, m.ptr, sc.f),
                 trace |-> (IF opened THEN <<"rows+">> ELSE <<>>) \o
                           (IF opened /\ sc.scanned THEN <<"rows-">>
                            ELSE <<>>)] :
            sc \in {ScanRowToModel(m, r)}}) :
        cols \in {GetColumnNames(m, FALSE)},
        r \in {QueryRow(db, m, GetColumnNames(m, FALSE), id, fail)}})

\* GetUserByID(id), GetEventByID(id): GetModelByID into a new record of the
\* type; the zero record goes with an error.
GetTypedByID(db, T, id, fail) ==
    Only({[slots |-> g.slots,
           cols |-> g.cols,
           err |-> g.err,
           trace |-> g.trace,
           rec |-> IF g.err.nil THEN g.model.f ELSE ZeroFields(T)] :
            g \in {GetModelByID(db, EmptyModel(T, TRUE), id, fail)}})

GetUserByID(db, id, fail) == GetTypedByID(db, "User", id, fail)

GetEventByID(db, id, fail) == GetTypedByID(db, "Event", id, fail)

\* What DB.Query may return for the built clauses: [qerr, rows, err], the
\* error of DB.Query, the rows the result set delivers and the terminal
\* error of its iteration.
QueryRows(db, m, c, fail) ==
    IF fail \in {"prepare", "exec"}
    THEN {[err |-> NoErr, rows |-> <<>>, qerr |-> Err(DriverErr)]}
    ELSE {IF ~g.err.nil
          THEN [err |-> NoErr, rows |-> <<>>, qerr |-> g.err]
          ELSE IF fail = "scan"
          THEN [err |-> Err(DriverErr),
                rows |-> SubSeq(g.rows, 1, Len(g.rows) - 1),
                qerr |-> NoErr]
          ELSE [err |-> NoErr, rows |-> g.rows, qerr |-> NoErr] :
          g \in DbQuery(db.tables, m.type, GetColumnNames(m, FALSE),
                        c, c.values)}

\* The statement of QueryModel: the select list, the table, the clauses.
QueryText(m, clauses) ==
    <<"S", "E", "L", "E", "C", "T", " ">> \o Join(GetColumnNames(m, FALSE), <<",", " ">>) \o
    <<" ", "F", "R", "O", "M", " ">> \o TableName(m.type) \o <<" ">> \o clauses

\* A variant that hands on what the clause builder says and stops.
QueryModelUnwrapped(db, m, queryParams, order, rows) ==
    Only({[slots |-> <<>>,
           cols |-> <<>>,
           err |-> c.err,
           recs |-> <<>>,
           isNil |-> TRUE,
           plan |-> c,
           trace |-> <<>>,
           binds |-> <<>>,
           query |-> <<>>,
           issued |-> FALSE] :
            c \in {buildQueryClauses(queryParams, order, m)}})

\* QueryModel(m, queryParams) with `rows` what DB.Query returns.  A result
\* set is closed when the call returns (defer rows.Close()).
QueryModel(db, m, queryParams, order, rows) ==
    Only({
        LET query == QueryText(m, c.clauses)
            limit == IF <<"l", "i", "m", "i", "t">> \in DOMAIN queryParams
                        /\ AtoiOk(queryParams[<<"l", "i", "m", "i", "t">>])
                     THEN Atoi(queryParams[<<"l", "i", "m", "i", "t">>]) ELSE 0
        IN  IF ~c.err.nil
            THEN [slots |-> <<>>,
                  cols |-> <<>>,
                  err |-> Err(<<"i", "n", "v", "a", "l", "i", "d", " ", "q", "u", "e", "r", "y", ":", " ">> \o c.err.msg),
                  recs |-> <<>>,
                  isNil |-> TRUE,
                  plan |-> c,
                  trace |-> <<>>,
                  binds |-> <<>>,
                  query |-> <<>>,
                  issued |-> FALSE]
            ELSE IF ~rows.qerr.nil
            THEN [slots |-> <<>>,
                  cols |-> GetColumnNames(m, FALSE),
                  err |-> rows.qerr,
                  recs |-> <<>>,
                  isNil |-> TRUE,
                  plan |-> c,
                  trace |-> <<>>,
                  binds |-> c.values,
                  query |-> query,
                  issued |-> TRUE]
            ELSE Only({[slots |-> res.slots,
                        cols |-> GetColumnNames(m, FALSE),
                        err |-> res.err,
                        recs |-> res.recs,
                        isNil |-> res.isNil,
                        plan |-> c,
                        trace |-> <<"rows+", "rows-">>,
                        binds |-> c.values,
                        query |-> query,
                        issued |-> TRUE] :
                         res \in {ScanRowsToSliceOfModels(m, rows, limit)}}) :
        c \in {buildQueryClauses(queryParams, order, m)}})

\* QueryEvents(queryParams): QueryModel for events, as []Event.
QueryEvents(db, queryParams, order, rows) ==
    Only({IF ~q.err.nil THEN [q EXCEPT !.isNil = TRUE, !.recs = <<>>] ELSE q :
            q \in {QueryModel(db, EmptyModel("Event", FALSE), queryParams,
                              order, rows)}})

-----------------------------------------------------------------------------
(* The inputs the callers give, drawn from small sets.                     *)

UserRec(id, email, password) ==
    Model("User", FALSE,
          [Email |-> StrV(email),
           Password |-> StrV(password),
           ID |-> IntV(id),
           CreatedAt |-> TimeV(0)])

EventRec(id, userId, name, description, startDate, createdAt, maxAttendees) ==
    Model("Event", FALSE,
          [Name |-> StrV(name),
           Description |-> StrV(description),
           StartDate |-> TimeV(startDate),
           ID |-> IntV(id),
           CreatedAt |-> TimeV(createdAt),
           UserID |-> IntV(userId),
           MaxAttendees |-> IntV(maxAttendees)])

MaxId(T) == IF T = "User" THEN MaxUserId ELSE MaxEventId

\* A record of T with only its ID set.
EmptyModelWithID(T, id) ==
    Model(T, FALSE, [ZeroFields(T) EXCEPT !["ID"] = IntV(id)])

\* Records a caller passes to Create, Update and Delete: a filled and an
\* all-zero choice of the writable fields, under every id of the range.
UserInputs ==
    {UserRec(id, <<"a", "@", "x">>, <<"p", "w">>) : id \in 0..MaxUserId}
    \cup {UserRec(id, <<>>, <<>>) : id \in 0..MaxUserId}

EventInputs ==
    {EventRec(id, u, <<"T", "e", "s", "t", " ", "E", "v", "e", "n", "t">>, <<"A", " ", "t", "e", "s", "t", " ", "e", "v", "e", "n", "t">>, 5, 9, 25) :
        id \in 0..MaxEventId, u \in 1..MaxUserId}
    \cup {EventRec(id, 1, <<>>, <<>>, 0, 0, 0) : id \in 0..MaxEventId}

Inputs(T) == IF T = "User" THEN UserInputs ELSE EventInputs

\* Records given to Create: the filled ones carry a stale id, the all-zero
\* one carries none.
CreateInputs(T) ==
    {m \in Inputs(T) :
        GetID(m) = (IF m.f[IF T = "User" THEN "Email" ELSE "Name"] = StrV(<<>>)
                    THEN 0 ELSE MaxId(T))}

\* The record of a call during which the driver fails.
FailInput(T) ==
    IF T = "User" THEN UserRec(1, <<"a", "@", "x">>, <<"p", "w">>)
    ELSE EventRec(1, 1, <<"T", "e", "s", "t", " ", "E", "v", "e", "n", "t">>, <<"A", " ", "t", "e", "s", "t", " ", "e", "v", "e", "n", "t">>, 5, 9, 25)

\* A call's record and what the driver does during it: every record with
\* a working driver, one record with each failure.
Calls(T, inputs, fails) ==
    {<<m, "none">> : m \in inputs} \cup {<<FailInput(T), f>> : f \in fails}

\* The rows the repository test seeds its events table with.
SeedUser == UserRec(0, <<"h", "e", "l", "l", "o", "@", "e", "x", "a", "m", "p", "l", "e", ".", "c", "o", "m">>, <<"p", "a", "s", "s", "w", "o", "r", "d">>)

SeedEvents ==
    << EventRec(0, 1, <<"T", "e", "s", "t", " ", "E", "v", "e", "n", "t">>, <<"A", "t", " ", "t", "h", "e", " ", "m", "a", "n", "o", "r", " ", "h", "o", "t", "e", "l">>, 1, 0, 100),
       EventRec(0, 1, <<"T", "e", "s", "t", " ", "E", "v", "e", "n", "t">>, <<"A", " ", "d", "i", "f", "f", "e", "r", "e", "n", "t", " ", "e", "v", "e", "n", "t">>, 2, 0, 50),
       EventRec(0, 1, <<"E", "v", "e", "n", "t">>, <<"A", " ", "d", "i", "f", "f", "e", "r", "e", "n", "t", " ", "n", "a", "m", "e">>, 3, 0, 25),
       EventRec(0, 1, <<"L", "o", "r", "e", "m">>, <<"i", "p", "s", "u", "m">>, 4, 0, 75) >>

\* A Go map literal from its key/value pairs.
MapOf(pairs) ==
    [k \in {p[1] : p \in pairs} |-> (CHOOSE p \in pairs : p[1] = k)[2]]

\* Every order in which a range loop may visit the keys.
RECURSIVE Orders(_)
Orders(keys) ==
    IF keys = {} THEN {<<>>}
    ELSE UNION {{<<k>> \o rest : rest \in Orders(keys \ {k})} : k \in keys}

Request(qp, order) == [order |-> order, qp |-> qp]

NoRequest == Request(MapOf({}), <<>>)

\* Bounds of the query requests.
MaxFilters == 2

\* Filters a request may carry, as key/value pairs.
FilterPairs ==
    { <<<<"n", "a", "m", "e">>, <<"T", "e", "s", "t", " ", "E", "v", "e", "n", "t">>>>, <<<<"n", "a", "m", "e">>, <<"E", "v", "e", "n", "t">>>>,
      <<<<"n", "a", "m", "e", "_", "n", "e">>, <<"E", "v", "e", "n", "t">>>>, <<<<"n", "a", "m", "e", "_", "c", "o", "n", "t", "a", "i", "n", "s">>, <<"E", "v", "e", "n", "t">>>>,
      <<<<"n", "a", "m", "e", "_", "a", "n", "y", "O", "f">>, <<"E", "v", "e", "n", "t", ",", "L", "o", "r", "e", "m">>>>,
      <<<<"d", "e", "s", "c", "r", "i", "p", "t", "i", "o", "n", "_", "c", "o", "n", "t", "a", "i", "n", "s">>, <<"d", "i", "f", "f", "e", "r", "e", "n", "t">>>>,
      <<<<"m", "a", "x", "A", "t", "t", "e", "n", "d", "e", "e", "s">>, <<"2", "5">>>>, <<<<"m", "a", "x", "A", "t", "t", "e", "n", "d", "e", "e", "s">>, <<"a", "b", "c">>>>,
      <<<<"m", "a", "x", "A", "t", "t", "e", "n", "d", "e", "e", "s", "_", "l", "t">>, <<"5", "0">>>>, <<<<"m", "a", "x", "A", "t", "t", "e", "n", "d", "e", "e", "s", "_", "g", "t">>, <<"4", "9", ".", "5">>>>,
      <<<<"m", "a", "x", "A", "t", "t", "e", "n", "d", "e", "e", "s", "_", "l", "t", "e">>, <<"7", "5">>>>, <<<<"m", "a", "x", "A", "t", "t", "e", "n", "d", "e", "e", "s", "_", "g", "t", "e">>, <<"5", "0">>>>,
      <<<<"m", "a", "x", "A", "t", "t", "e", "n", "d", "e", "e", "s", "_", "a", "n", "y", "O", "f">>, <<"2", "5", ",", "1", "0", "0", ",", "7">>>>,
      <<<<"u", "s", "e", "r", "I", "d">>, <<"1">>>>, <<<<"i", "d", "_", "g", "t">>, <<"+", "2">>>>,
      <<<<"n", "o", "S", "u", "c", "h", "T", "h", "i", "n", "g">>, <<"w", "h", "o", " ", "c", "a", "r", "e", "s", "?">>>>, <<<<"b", "o", "g", "u", "s", "_", "n", "e">>, <<"1">>>>,
      <<<<"e", "m", "a", "i", "l">>, <<"h", "e", "l", "l", "o", "@", "e", "x", "a", "m", "p", "l", "e", ".", "c", "o", "m">>>> }

SortChoices == {<<"n", "a", "m", "e">>, <<"-", "m", "a", "x", "A", "t", "t", "e", "n", "d", "e", "e", "s">>, <<>>, <<"b", "o", "g", "u", "s">>}
LimitChoices == {<<"2">>, <<"0">>, <<"x">>, <<"-", "1">>}
OffsetChoices == {<<"1">>, <<"3">>, <<"x">>}

\* The sortBy, limit and offset entries of a request: any of them absent.
Reserved(sorts, limits, offsets) ==
    { s \cup l \cup o :
        s \in {{}} \cup {{<<<<"s", "o", "r", "t", "B", "y">>, v>>} : v \in sorts},
        l \in {{}} \cup {{<<<<"l", "i", "m", "i", "t">>, v>>} : v \in limits},
        o \in {{}} \cup {{<<<<"o", "f", "f", "s", "e", "t">>, v>>} : v \in offsets} }

\* Sets of at most n filters with different keys.
RECURSIVE FilterSets(_)
FilterSets(n) ==
    IF n = 0 THEN {{}}
    ELSE LET fewer == FilterSets(n - 1)
         IN  fewer \cup
             UNION {{fs \cup {p} :
                        p \in {q \in FilterPairs :
                                  \A o \in fs : o[1] # q[1]}} :
                    fs \in fewer}

\* The visiting orders of a key set that the requests are given: the
\* filter keys in every order, the reserved keys before or after them.
VisitOrders(keys) ==
    LET rs == SelectSeq(<<<<"s", "o", "r", "t", "B", "y">>, <<"l", "i", "m", "i", "t">>, <<"o", "f", "f", "s", "e", "t">>>>,
                        LAMBDA k : k \in keys)
    IN  UNION {{fo \o rs, rs \o fo} : fo \in Orders(keys \ ReservedKeys)}

RequestsOf(pairSets) ==
    UNION {{Request(MapOf(ps), order) : order \in VisitOrders({p[1] : p \in ps})} :
             ps \in pairSets}

\* The requests of the query specification: up to MaxFilters filters with
\* a few choices of the reserved keys, and up to one filter with every
\* choice of them.
Requests ==
    RequestsOf({fs \cup r :
        fs \in FilterSets(MaxFilters),
        r \in Reserved({<<"-", "m", "a", "x", "A", "t", "t", "e", "n", "d", "e", "e", "s">>}, {<<"2">>}, {})})
    \cup RequestsOf({fs \cup r :
        fs \in FilterSets(1),
        r \in Reserved(SortChoices, LimitChoices, OffsetChoices)})

-----------------------------------------------------------------------------
(* The state machine.                                                      *)

NoCall == [op |-> "none"]

\* No Create call is in flight.
NoCalls == [p \in 1..MaxCalls |-> [pc |-> "idle"]]

InitStore ==
    /\ tables = [T \in StoredTypes |-> <<>>]
    /\ seqs = [T \in StoredTypes |-> 1]
    /\ now = 1
    /\ open = 0
    /\ hist = [T \in StoredTypes |-> <<>>]
    /\ last = NoCall
    /\ calls = NoCalls

Init == InitStore /\ req = NoRequest

Put(f, k, v) == [x \in (DOMAIN f) \cup {k} |-> IF x = k THEN v ELSE f[x]]

\* The fields of a record that are not readOnly.
Writable(m) ==
    [n \in {Fields(m.type)[i].name :
              i \in {j \in 1..Len(Fields(m.type)) : ~Fields(m.type)[j].ro}} |->
        m.f[n]]

SetDb(db) ==
    /\ tables' = db.tables
    /\ seqs' = db.seqs
    /\ now' = db.now

\* hist[T][id] is the last successful write of row id of T: the Create
\* that was assigned the id or an Update that found the row, with the
\* writable fields it was given, or a Delete of the id.  `cascaded` is 0,
\* or the id of the user whose Delete has since taken the row with it.
Written(how, vals) == [vals |-> vals, how |-> how, cascaded |-> 0]

DoCreate(m, fail) ==
    \E r \in {Create(Db, m, fail)} :
        /\ SetDb(r.db)
        /\ open' = open + Leaked(r.trace)
        /\ hist' = IF r.err.nil
                   THEN [hist EXCEPT ![m.type] =
                            Put(@, r.id, Written("create", Writable(m)))]
                   ELSE hist
        /\ last' = [type |-> m.type,
                    cols |-> r.cols,
                    err |-> r.err,
                    op |-> "Create",
                    given |-> m.f,
                    id |-> r.id,
                    fail |-> fail,
                    trace |-> r.trace,
                    binds |-> r.binds,
                    query |-> r.query]
        /\ UNCHANGED <<req, calls>>

DoUpdate(m, fail) ==
    \E r \in {Update(Db, m, fail)}, id \in {GetID(m)},
       existed \in {GetID(m) \in Ids(tables, m.type)} :
        /\ SetDb(r.db)
        /\ open' = open + Leaked(r.trace)
        /\ hist' = IF r.err.nil /\ existed
                   THEN [hist EXCEPT ![m.type] =
                            Put(@, id, Written("update", Writable(m)))]
                   ELSE hist
        /\ last' = [type |-> m.type,
                    cols |-> r.cols,
                    err |-> r.err,
                    op |-> "Update",
                    given |-> m.f,
                    id |-> id,
                    fail |-> fail,
                    trace |-> r.trace,
                    binds |-> r.binds,
                    query |-> r.query]
        /\ UNCHANGED <<req, calls>>

DoDelete(m, fail) ==
    \E r \in {Delete(Db, m, fail)}, id \in {GetID(m)},
       cascade \in {CascadedEvents(tables, m.type, GetID(m))},
       h1 \in {[hist EXCEPT ![m.type] =
                  Put(@, GetID(m), Written("delete", <<>>))]} :
        /\ SetDb(r.db)
        /\ open' = open + Leaked(r.trace)
        /\ hist' = IF ~r.err.nil THEN hist
                   ELSE [h1 EXCEPT !["Event"] =
                            [e \in DOMAIN @ |->
                                IF e \in cascade
                                THEN [@[e] EXCEPT !.cascaded = id]
                                ELSE @[e]]]
        /\ last' = [type |-> m.type,
                    err |-> r.err,
                    op |-> "Delete",
                    id |-> id,
                    fail |-> fail,
                    trace |-> r.trace,
                    binds |-> r.binds,
                    query |-> r.query]
        /\ UNCHANGED <<req, calls>>

DoGetModelByID(m, id, fail) ==
    \E r \in {GetModelByID(Db, m, id, fail)} :
        /\ open + Leaked(r.trace) <= MaxOpen
        /\ open' = open + Leaked(r.trace)
        /\ last' = [ptr |-> m.ptr,
                    type |-> m.type,
                    slots |-> r.slots,
                    cols |-> r.cols,
                    err |-> r.err,
                    isNil |-> r.isNil,
                    op |-> "GetModelByID",
                    id |-> id,
                    fail |-> fail,
                    trace |-> r.trace,
                    rec |-> r.given.f]
        /\ UNCHANGED <<tables, seqs, now, hist, req, calls>>

DoGetTyped(op, r, T, id, fail) ==
    /\ open' = open + Leaked(r.trace)
    /\ last' = [ptr |-> TRUE,
                type |-> T,
                slots |-> r.slots,
                cols |-> r.cols,
                err |-> r.err,
                isNil |-> FALSE,
                op |-> op,
                id |-> id,
                fail |-> fail,
                trace |-> r.trace,
                rec |-> r.rec]
    /\ UNCHANGED <<tables, seqs, now, hist, req, calls>>

DoGetUserByID(id, fail) ==
    DoGetTyped("GetUserByID", GetUserByID(Db, id, fail), "User", id, fail)

DoGetEventByID(id, fail) ==
    DoGetTyped("GetEventByID", GetEventByID(Db, id, fail), "Event", id, fail)

\* The keys of a visiting order that are filters, in that order.
FilterOrder(order) == SelectSeq(order, LAMBDA k : k \notin ReservedKeys)

DoQuery(op, r, T, queryParams, order, fail) ==
    /\ open' = open + Leaked(r.trace)
    /\ last' = [type |-> T,
                slots |-> r.slots,
                cols |-> r.cols,
                err |-> r.err,
                recs |-> r.recs,
                isNil |-> r.isNil,
                op |-> op,
                values |-> r.plan.values,
                clauses |-> r.plan.clauses,
                fail |-> fail,
                trace |-> r.trace,
                binds |-> r.binds,
                query |-> r.query,
                issued |-> r.issued,
                cerr |-> r.plan.err,
                texts |-> [i \in 1..Len(r.plan.parts) |-> r.plan.parts[i].text]]
    /\ UNCHANGED <<tables, seqs, now, hist, req, calls>>

DoQueryModel(m, queryParams, order, fail) ==
    \E rows \in QueryRows(Db, m, buildQueryClauses(queryParams, order, m), fail) :
        DoQuery("QueryModel", QueryModel(Db, m, queryParams, order, rows),
                m.type, queryParams, order, fail)

DoQueryEvents(queryParams, order, fail) ==
    \E rows \in QueryRows(Db, EmptyModel("Event", FALSE),
                    buildQueryClauses(queryParams, order,
                                      EmptyModel("Event", FALSE)), fail) :
        DoQuery("QueryEvents", QueryEvents(Db, queryParams, order, rows),
                "Event", queryParams, order, fail)

\* The CRUD specification: every call, on small tables.
CreateStep ==
    \E T \in StoredTypes :
        \E c \in Calls(T, CreateInputs(T), {"prepare", "exec"}) :
            /\ seqs[T] <= MaxId(T)
            /\ DoCreate(c[1], c[2])

UpdateStep ==
    \E T \in StoredTypes :
        \E c \in Calls(T, {m \in Inputs(T) : GetID(m) > 0},
                       {"prepare", "exec"}) :
            DoUpdate(c[1], c[2])

DeleteStep ==
    \E T \in StoredTypes :
        \E c \in Calls(T, {EmptyModelWithID(T, id) : id \in 1..MaxId(T)},
                       {"prepare", "exec"}) :
            DoDelete(c[1], c[2])

GetModelStep ==
    \E T \in StoredTypes : \E id \in 1..MaxId(T) :
        \E fail \in {"none", "exec", "scan"} :
            /\ fail # "none" => id = 1
            /\ DoGetModelByID(EmptyModel(T, TRUE), id, fail)

\* GetModelByID given a record instead of a pointer to one.
GetModelValueStep ==
    \E T \in StoredTypes : \E id \in 1..MaxId(T) :
        DoGetModelByID(EmptyModel(T, FALSE), id, "none")

GetUserStep ==
    \E id \in 1..MaxUserId : \E fail \in {"none", "exec", "scan"} :
        /\ fail # "none" => id = 1
        /\ DoGetUserByID(id, fail)

GetEventStep ==
    \E id \in 1..MaxEventId : \E fail \in {"none", "exec", "scan"} :
        /\ fail # "none" => id = 1
        /\ DoGetEventByID(id, fail)

\* The query calls are given the request of the specification; the driver
\* fails on the empty map.
QueryModelStep ==
    \E T \in StoredTypes : \E fail \in {"none", "exec", "scan"} :
        /\ fail # "none" => req = NoRequest
        /\ DoQueryModel(EmptyModel(T, FALSE), req.qp, req.order, fail)

QueryEventsStep ==
    \E fail \in {"none", "exec", "scan"} :
        /\ fail # "none" => req = NoRequest
        /\ DoQueryEvents(req.qp, req.order, fail)

Next ==
    \/ CreateStep
    \/ UpdateStep
    \/ DeleteStep
    \/ GetModelStep
    \/ GetUserStep
    \/ GetEventStep

Spec == Init /\ [][Next]_vars

\* The query specification: the tables as the repository test seeds them,
\* one request, and the query calls on it.
RECURSIVE SeedDb(_, _)
SeedDb(db, ms) ==
    IF ms = <<>> THEN db
    ELSE Only({SeedDb(d, rest) :
                 d \in {Create(db, Head(ms), "none").db}, rest \in {Tail(ms)}})

EmptyDb ==
    [tables |-> [T \in StoredTypes |-> <<>>],
     seqs |-> [T \in StoredTypes |-> 1], now |-> 1]

InitSeeded(ms) ==
    \E db \in {SeedDb(EmptyDb, ms)} :
        /\ tables = db.tables
        /\ seqs = db.seqs
        /\ now = db.now
        /\ open = 0
        /\ hist = [T \in StoredTypes |-> <<>>]
        /\ last = NoCall
        /\ calls = NoCalls

SpecQuery ==
    /\ InitSeeded(<<SeedUser>> \o SeedEvents)
    /\ req \in Requests
    /\ [][QueryModelStep \/ QueryEventsStep]_vars

\* The read specification: the seeded tables, one of a few requests, and
\* every call that reads.
ReadRequests ==
    RequestsOf({{}, {<<<<"n", "a", "m", "e">>, <<"T", "e", "s", "t", " ", "E", "v", "e", "n", "t">>>>},
                {<<<<"n", "o", "S", "u", "c", "h", "T", "h", "i", "n", "g">>, <<"w", "h", "o", " ", "c", "a", "r", "e", "s", "?">>>>},
                {<<<<"m", "a", "x", "A", "t", "t", "e", "n", "d", "e", "e", "s", "_", "a", "n", "y", "O", "f">>, <<"2", "5", ",", "1", "0", "0">>>>, <<<<"l", "i", "m", "i", "t">>, <<"1">>>>}})

SpecRead ==
    /\ InitSeeded(<<SeedUser>> \o SeedEvents)
    /\ req \in ReadRequests
    /\ [][\/ GetModelStep
           \/ GetModelValueStep
           \/ GetUserStep
           \/ GetEventStep
           \/ QueryModelStep
           \/ QueryEventsStep]_vars

\* The paging specification: the seeded user and up to MaxSeedRows events,
\* Deletes of the first rows, and the query calls on the empty map.
PageSeed(n) ==
    <<SeedUser>> \o [i \in 1..n |-> EventRec(0, 1, <<"E", "v", "e", "n", "t">>, <<>>, i, 0, 75)]

DeleteSeededStep ==
    \E T \in StoredTypes : \E id \in 1..MaxDeleted :
        DoDelete(EmptyModelWithID(T, id), "none")

SpecPage ==
    /\ \E n \in 0..MaxSeedRows : InitSeeded(PageSeed(n))
    /\ req = NoRequest
    /\ [][DeleteSeededStep \/ QueryModelStep \/ QueryEventsStep]_vars

\* The concurrent specification: Create calls of several goroutines on
\* the seeded user table and the empty event table.  A call takes three
\* steps on the shared database: Prepare, the INSERT of stmt.QueryRow,
\* which the store runs atomically, and Row.Scan with the deferred Close.
CallCreate ==
    \E p \in 1..MaxCalls : \E T \in StoredTypes : \E m \in CreateInputs(T) :
        /\ calls[p].pc = "idle"
        /\ \E fail \in {"none", "prepare"} :
              calls' = [calls EXCEPT ![p] =
                  [m |-> m,
                   cols |-> GetColumnNames(m, TRUE),
                   err |-> IF fail = "none" THEN NoErr
                           ELSE Err(<<"e", "r", "r", "o", "r", " ", "p", "r", "e", "p", "a", "r", "i", "n", "g", " ", "q", "u", "e", "r", "y", ":", " ">> \o DriverErr),
                   id |-> 0,
                   vals |-> GetValsFromModel(m),
                   pc |-> IF fail = "none" THEN "exec" ELSE "done",
                   turn |-> 1 + Cardinality({q \in 1..MaxCalls :
                                               calls[q].pc # "idle"})]]
        /\ UNCHANGED <<tables, seqs, now, open, hist, req, last>>

ExecCreate ==
    \E p \in 1..MaxCalls :
        /\ calls[p].pc = "exec"
        /\ \E ins \in {DbInsert(tables, seqs, now, calls[p].m.type,
                                calls[p].cols, calls[p].vals)} :
              /\ SetDb(ins)
              /\ calls' = [calls EXCEPT ![p].pc = "scan",
                                        ![p].err = ins.err,
                                        ![p].id = ins.id]
        /\ UNCHANGED <<open, hist, req, last>>

ReturnCreate ==
    \E p \in 1..MaxCalls :
        /\ calls[p].pc = "scan"
        /\ calls' = [calls EXCEPT
                        ![p].pc = "done",
                        ![p].err = IF calls[p].err.nil THEN NoErr
                                   ELSE Err(<<"e", "r", "r", "o", "r", " ", "e", "x", "e", "c", "u", "t", "i", "n", "g", " ", "q", "u", "e", "r", "y", ":", " ">>
                                            \o calls[p].err.msg),
                        ![p].id = IF calls[p].err.nil THEN calls[p].id ELSE 0]
        /\ UNCHANGED <<tables, seqs, now, open, hist, req, last>>

SpecConc ==
    /\ InitSeeded(<<SeedUser>>)
    /\ req = NoRequest
    /\ [][CallCreate \/ ExecCreate \/ ReturnCreate]_vars

\* The builder specification: buildQueryClauses alone, on the requests of
\* the query specification and on requests with a doubled suffix, an empty
\* _anyOf value, a _anyOf list of mixed elements, a numeric _contains
\* value and three filters.
BuildRequests ==
    LET more == { <<<<"m", "a", "x", "A", "t", "t", "e", "n", "d", "e", "e", "s", "_", "n", "e", "_", "g", "t">>, <<"1">>>>, <<<<"n", "a", "m", "e", "_", "a", "n", "y", "O", "f">>, <<>>>>,
                  <<<<"n", "a", "m", "e", "_", "c", "o", "n", "t", "a", "i", "n", "s">>, <<"2", "5">>>>, <<<<"i", "d", "_", "l", "t", "e", "_", "l", "t">>, <<"3">>>>,
                  <<<<"m", "a", "x", "A", "t", "t", "e", "n", "d", "e", "e", "s", "_", "a", "n", "y", "O", "f">>, <<"7", ",", "x", ",", "1", ".", "5">>>> }
        three == { <<<<"n", "a", "m", "e", "_", "a", "n", "y", "O", "f">>, <<"a", ",", ",", "b">>>>, <<<<"i", "d", "_", "g", "t", "e">>, <<"2">>>>,
                   <<<<"d", "e", "s", "c", "r", "i", "p", "t", "i", "o", "n", "_", "c", "o", "n", "t", "a", "i", "n", "s">>, <<"1", ".", "5">>>> }
    IN  Requests
        \cup RequestsOf(UNION {{({p} \cup fs) \cup r :
                fs \in {f \in FilterSets(1) : \A o \in f : o[1] # p[1]},
                r \in Reserved({<<"-", "n", "a", "m", "e">>, <<"-">>}, {<<"3">>}, {<<"1">>})} :
            p \in more})
        \cup RequestsOf({three \cup r :
                r \in Reserved({<<"u", "s", "e", "r", "I", "d">>, <<"-", "b", "o", "g", "u", "s">>}, {<<"+", "4">>}, {<<"x">>})})

BuildStep ==
    \E T \in StoredTypes :
        \E plan \in {buildQueryClauses(req.qp, req.order, EmptyModel(T, FALSE))} :
            /\ last' = [type |-> T,
                        op |-> "buildQueryClauses",
                        values |-> plan.values,
                        clauses |-> plan.clauses,
                        cerr |-> plan.err,
                        texts |-> [i \in 1..Len(plan.parts) |->
                                      plan.parts[i].text]]
            /\ UNCHANGED <<tables, seqs, now, open, hist, req, calls>>

SpecBuild ==
    /\ \E r \in BuildRequests : InitStore /\ req = r
    /\ [][BuildStep]_vars

\* The derivation specification: the column lists and the tag map are
\* derived from records of every type, held by value or by pointer and
\* with any field values, between Create and Delete calls.
ColumnNamesStep ==
    \E T \in ModelTypes : \E ptr \in BOOLEAN :
        \E f \in {ZeroFields(T), [ZeroFields(T) EXCEPT !["ID"] = IntV(2)]}
                 \cup (IF T \in StoredTypes THEN {m.f : m \in Inputs(T)}
                       ELSE {[ZeroFields(T) EXCEPT !["Name"] = StrV(<<"T", "o", "m">>)]}) :
            /\ last' = [type |-> T,
                        m |-> Model(T, ptr, f),
                        jsonMap |-> MapJsonTagsToDB(Model(T, ptr, f)),
                        writable |-> GetColumnNames(Model(T, ptr, f), TRUE),
                        op |-> "GetColumnNames",
                        all |-> GetColumnNames(Model(T, ptr, f), FALSE)]
            /\ UNCHANGED <<tables, seqs, now, open, hist, req, calls>>

SpecColumns ==
    Init /\ [][ColumnNamesStep \/ CreateStep \/ DeleteStep]_vars

\* The validation specification: ValidateModel on records of every type,
\* valid and not, and on the struct{ Name string } of the test, which is
\* no Model; GetModelByID given a
\* record instead of a pointer; Deletes of seeded rows in between.
ValidateStep ==
    \E model \in
          {Model(T, ptr, f) :
              T \in {"User"}, ptr \in BOOLEAN,
              f \in {m.f : m \in UserInputs}
                    \cup {UserRec(1, <<"h", "e", "l", "l", "o", "@", "e", "x", "a", "m", "p", "l", "e">>, <<"p", "a", "s", "s", "w", "o", "r", "d">>).f,
                          UserRec(1, <<"h", "e", "l", "l", "o", "@", "e", "x", "a", "m", "p", "l", "e", ".", "c", "o", "m">>, <<"p", "a", "s", "s", "w", "o", "r", "d">>).f}}
          \cup {Model(T, ptr, m.f) :
                  T \in {"Event"}, ptr \in BOOLEAN, m \in EventInputs}
          \cup {Model("MockModel", FALSE,
                      [Email |-> StrV(e),
                       Name |-> StrV(n),
                       ID |-> IntV(1),
                       CreatedAt |-> TimeV(3)]) :
                  n \in {<<"T", "e", "s", "t">>, <<>>},
                  e \in {<<"h", "e", "l", "l", "o", "@", "e", "x", "a", "m", "p", "l", "e", ".", "c", "o", "m">>, <<"h", "e", "l", "l", "o", "@", "e", "x", "a", "m", "p", "l", "e">>}}
          \cup {[ptr |-> FALSE,
                 f |-> [n \in {"Name"} |-> StrV(<<"T", "e", "s", "t">>)],
                 type |-> "struct"]} :
        /\ last' = [ptr |-> model.ptr,
                    type |-> model.type,
                    err |-> ValidateModel(model),
                    op |-> "ValidateModel",
                    given |-> model.f,
                    rec |-> model.f]
        /\ UNCHANGED <<tables, seqs, now, open, hist, req, calls>>

SpecValidate ==
    /\ InitSeeded(<<SeedUser>> \o SeedEvents)
    /\ req = NoRequest
    /\ [][ValidateStep \/ GetModelValueStep \/ DeleteSeededStep]_vars

\* The failure specification: every call of the repository, with the
\* driver working or failing at each place it is called, on small tables.
SpecFail == Init /\ [][Next \/ QueryModelStep \/ QueryEventsStep]_vars

\* The scanning specification: ScanRowsToSliceOfModels on a result set of
\* up to MaxScanRows rows of which the caller has taken the first few,
\* some with a NULL in a column, with or without a terminal error, under
\* several expected counts.
MaxScanRows == 3

ScanManyStep ==
    LET row(T, f) == [j \in 1..Len(Fields(T)) |-> f[Fields(T)[j].name]]
        pool(T) ==
            IF T = "Event"
            THEN {row(T, EventRec(i, 1, <<"T", "e", "s", "t", " ", "E", "v", "e", "n", "t">>, <<>>, 5, 9, 25).f) :
                    i \in 1..2}
                 \cup {row(T, [EventRec(3, 1, <<"b">>, <<>>, 5, 9, 25).f
                                 EXCEPT !["Description"] = NilV])}
            ELSE {row(T, [Email |-> StrV(<<"t", "e", "s", "t", "@", "e", "x", "a", "m", "p", "l", "e", ".", "c", "o", "m">>),
                          Name |-> StrV(<<"T", "e", "s", "t", " ", "U", "s", "e", "r">>),
                          ID |-> IntV(i),
                          CreatedAt |-> TimeV(2)]) : i \in 1..2}
                 \cup {<<IntV(3), StrV(<<"A", "n", "o", "t", "h", "e", "r", " ", "U", "s", "e", "r">>)>>}
    IN  \E T \in {"Event", "MockModel"}, ptr \in BOOLEAN,
           n \in 0..MaxScanRows, terminal \in {NoErr, Err(DriverErr)},
           expectedRows \in {-1, 0, 1, 2, 11, 5001} :
        \E all \in [1..n -> pool(T)], taken \in 0..n :
        \E res \in {ScanRowsToSliceOfModels(
                        EmptyModel(T, ptr),
                        [err |-> terminal, rows |-> SubSeq(all, taken + 1, n)],
                        expectedRows)} :
            /\ taken > 0 => ~ptr /\ expectedRows = 2
            /\ last' = [type |-> T,
                        err |-> res.err,
                        expectedRows |-> expectedRows,
                        recs |-> res.recs,
                        isNil |-> res.isNil,
                        op |-> "ScanRowsToSliceOfModels",
                        all |-> all,
                        terminal |-> terminal,
                        taken |-> taken]
            /\ UNCHANGED <<tables, seqs, now, open, hist, req, calls>>

SpecScan == Init /\ [][ScanManyStep]_vars

\* The response specification: SendErrorJSON with the status codes and
\* errors of the test and others around 500, and marshalAndSend given
\* envelopes and values that are none, each on a new recorder.
StatusCodes == {200, 400, 404, 499, 500, 503}

SendErrorStep ==
    \E statusCode \in StatusCodes, fail \in {"none", "write"},
       msg \in {<<"A", "n", " ", "e", "r", "r", "o", "r", " ", "o", "c", "c", "u", "r", "r", "e", "d">>, <<"I", "n", "t", "e", "r", "n", "a", "l", " ", "s", "e", "r", "v", "e", "r", " ", "e", "r", "r", "o", "r">>, <<>>,
                <<"n", "o", " ", "u", "s", "e", "r", " ">> \o <<"\"">> \o <<"a", "&", "b">> \o <<"\"">>,
                <<"b", "a", "d", " ", "p", "a", "t", "h", " ", "C", ":">> \o <<"\\">> \o <<"n", " ", "<", "i", "d", ">">> \o <<"\n">>} :
        \E r \in {SendErrorJSON(NewRecorder, statusCode, Err(msg), fail)} :
            /\ last' = [err |-> r.err,
                        op |-> "SendErrorJSON",
                        w |-> r.w,
                        message |-> msg,
                        statusCode |-> statusCode,
                        fail |-> fail]
            /\ UNCHANGED <<tables, seqs, now, open, hist, req, calls>>

MarshalAndSendStep ==
    \E statusCode \in StatusCodes, fail \in {"none", "write"},
       jsonRes \in
          {[kind |-> "successJSON", status |-> <<"s", "u", "c", "c", "e", "s", "s">>, data |-> d] :
              d \in {[json |-> <<"{">> \o jsonString(<<"k", "e", "y">>) \o <<":">>
                               \o jsonString(<<"v", "a", "l", "u", "e">>) \o <<"}">>,
                      ok |-> TRUE],
                     [json |-> <<>>, ok |-> FALSE]}}
          \cup {[kind |-> "errorJSON", status |-> <<"f", "a", "i", "l">>, message |-> <<"n", "o">>]}
          \cup {[kind |-> "other", goType |-> t] :
                  t \in {<<"s", "t", "r", "u", "c", "t", " ", "{", " ", "N", "a", "m", "e", " ", "s", "t", "r", "i", "n", "g", " ", "}">>, <<"*", "m", "a", "i", "n", ".", "e", "r", "r", "o", "r", "J", "S", "O", "N">>,
                         <<"s", "t", "r", "i", "n", "g">>, <<"<", "n", "i", "l", ">">>}} :
        \E r \in {marshalAndSend(NewRecorder, jsonRes, statusCode, fail)} :
            /\ last' = [err |-> r.err,
                        op |-> "marshalAndSend",
                        w |-> r.w,
                        jsonRes |-> jsonRes,
                        statusCode |-> statusCode,
                        fail |-> fail]
            /\ UNCHANGED <<tables, seqs, now, open, hist, req, calls>>

SpecSend == Init /\ [][SendErrorStep \/ MarshalAndSendStep]_vars
-----------------------------------------------------------------------------
(* Properties of the query builder.  What a request means is written here  *)
(* from the request itself, apart from the builder's definitions.          *)

QueryOps == {"QueryModel", "QueryEvents"}

\* The last call was a query whose request the clause builder accepted.
Accepted == last.op \in QueryOps /\ last.cerr.nil

OperatorSuffixes ==
    {<<"_", "n", "e">>, <<"_", "l", "t">>, <<"_", "g", "t">>, <<"_", "l", "t", "e">>, <<"_", "g", "t", "e">>, <<"_", "c", "o", "n", "t", "a", "i", "n", "s">>, <<"_", "a", "n", "y", "O", "f">>}

\* The operator suffix of a key, empty when it has none.  No suffix is the
\* end of another, so a key has at most one.
KeySuffix(key) ==
    IF \E x \in OperatorSuffixes : HasSuffix(key, x)
    THEN CHOOSE x \in OperatorSuffixes : HasSuffix(key, x)
    ELSE <<>>

StrippedKey(key) == SubSeq(key, 1, Len(key) - Len(KeySuffix(key)))

\* Whether an external name is the json tag of a field with a column.
Resolves(T, tag) ==
    \E i \in 1..Len(Fields(T)) :
        Fields(T)[i].json = tag /\ Fields(T)[i].db # <<>>

ColumnOfTag(T, tag) ==
    Fields(T)[CHOOSE i \in 1..Len(Fields(T)) : Fields(T)[i].json = tag].db

\* An int when the text is one, else a float when it is one, else the text.
Coerced(v) ==
    IF AtoiOk(v) THEN IntV(Atoi(v))
    ELSE IF ParseFloatOk(v) THEN FloatV(v)
    ELSE StrV(v)

\* The bind values a filter stands for, in order.
ExpectedBinds(key, value) ==
    IF KeySuffix(key) = <<"_", "a", "n", "y", "O", "f">>
    THEN [i \in 1..Len(Split(value, ",")) |-> Coerced(Split(value, ",")[i])]
    ELSE IF KeySuffix(key) = <<"_", "c", "o", "n", "t", "a", "i", "n", "s">>
    THEN <<Coerced(<<"%">> \o value \o <<"%">>)>>
    ELSE <<Coerced(value)>>

EffectiveLimit ==
    IF <<"l", "i", "m", "i", "t">> \in DOMAIN req.qp THEN Atoi(req.qp[<<"l", "i", "m", "i", "t">>]) ELSE 10

EffectiveOffset ==
    IF <<"o", "f", "f", "s", "e", "t">> \in DOMAIN req.qp THEN Atoi(req.qp[<<"o", "f", "f", "s", "e", "t">>]) ELSE 0

\* The first index at which sub occurs in s, 0 when it does not.
FindSub(s, sub) ==
    IF Contains(s, sub)
    THEN CHOOSE i \in 1..Len(s) :
             /\ SubSeq(s, i, i + Len(sub) - 1) = sub
             /\ \A j \in 1..(i - 1) : SubSeq(s, j, j + Len(sub) - 1) # sub
    ELSE 0

RECURSIVE SplitOn(_, _)
SplitOn(s, sep) ==
    IF FindSub(s, sep) = 0 THEN <<s>>
    ELSE <<SubSeq(s, 1, FindSub(s, sep) - 1)>> \o
         SplitOn(SubSeq(s, FindSub(s, sep) + Len(sep), Len(s)), sep)

\* The conditions of the WHERE clause of a clause text, left to right.
Fragments(clauses) ==
    IF HasPrefix(clauses, <<"W", "H", "E", "R", "E", " ">>)
    THEN SplitOn(SubSeq(clauses, 7, FindSub(clauses, <<" ", "O", "R", "D", "E", "R", " ", "B", "Y", " ">>) - 1),
                 <<" ", "A", "N", "D", " ">>)
    ELSE <<>>

\* The words of a SQL text: what stands between blanks, commas and
\* parentheses.
Words(s) ==
    SelectSeq(Split([i \in 1..Len(s) |->
                        IF s[i] \in {",", "(", ")"} THEN " " ELSE s[i]],
                    " "),
              LAMBDA w : w # <<>>)

SqlWords ==
    {<<"S", "E", "L", "E", "C", "T">>, <<"F", "R", "O", "M">>, <<"W", "H", "E", "R", "E">>, <<"A", "N", "D">>, <<"O", "R", "D", "E", "R">>, <<"B", "Y">>, <<"A", "S", "C">>, <<"D", "E", "S", "C">>,
     <<"L", "I", "M", "I", "T">>, <<"O", "F", "F", "S", "E", "T">>, <<"I", "N">>, <<"L", "I", "K", "E">>, <<"=">>, <<"!", "=">>, <<"<">>, <<">">>, <<"<", "=">>,
     <<">", "=">>}

IsPlaceholderWord(w) == Len(w) >= 2 /\ w[1] = "$" /\ AllDigits(Tail(w))

\* The names the metadata of a record type gives: its table and columns.
MetadataWords(T) ==
    {TableName(T)} \cup {Fields(T)[i].db : i \in 1..Len(Fields(T))}

\* The request with every filter value, limit and offset replaced by a
\* fixed one: the keys, the sortBy value and the number of elements of
\* every _anyOf value stay.
Scrubbed(qp) ==
    [k \in DOMAIN qp |->
        IF k = <<"s", "o", "r", "t", "B", "y">> THEN qp[k]
        ELSE IF k \in {<<"l", "i", "m", "i", "t">>, <<"o", "f", "f", "s", "e", "t">>} THEN <<"0">>
        ELSE IF KeySuffix(k) = <<"_", "a", "n", "y", "O", "f">>
        THEN Join([i \in 1..Len(Split(qp[k], ",")) |-> <<"v">>], <<",">>)
        ELSE <<"v">>]

\* The statement QueryModel builds for a request, empty when the builder
\* rejects the request.
TextOf(T, qp, order) ==
    IF buildQueryClauses(qp, order, EmptyModel(T, FALSE)).err.nil
    THEN QueryText(EmptyModel(T, FALSE),
             buildQueryClauses(qp, order, EmptyModel(T, FALSE)).clauses)
    ELSE <<>>

\* C1 (amended): two accepted requests with the same keys, the same sortBy
\* value and as many elements in each _anyOf value, whose keys are visited
\* in the same order, get the same statement text byte for byte: the text
\* of a request is that of the request with its filter, limit and offset
\* values replaced; and every word of the text is a SQL keyword or
\* operator, a placeholder, or the table name or a column name of the
\* record type.
C1_TextFromShape ==
    Accepted
    => /\ last.query # <<>>
       /\ last.query = TextOf(last.type, Scrubbed(req.qp), req.order)
       /\ \A i \in 1..Len(Words(last.query)) :
              \/ Words(last.query)[i] \in SqlWords
              \/ Words(last.query)[i] \in MetadataWords(last.type)
              \/ IsPlaceholderWord(Words(last.query)[i])

C1_Witness ==
    /\ Accepted
    /\ last.issued
    /\ Len(FilterOrder(req.order)) = 2
    /\ <<"n", "a", "m", "e", "_", "a", "n", "y", "O", "f">> \in DOMAIN req.qp
    /\ <<"l", "i", "m", "i", "t">> \in DOMAIN req.qp
    /\ req.qp # Scrubbed(req.qp)
    /\ Contains(last.query, <<" ", "I", "N", " ", "(", "$">>)

\* C1 as stated: requests with the same keys, the same sortBy value and as
\* many elements in each _anyOf value get the same statement text, in
\* whatever order the keys of each are visited.
C1_AsStated ==
    Accepted
    => \A order \in Orders(DOMAIN req.qp) :
           TextOf(last.type, Scrubbed(req.qp), order) = last.query

\* C2: for an accepted request and every visiting order of its keys, the
\* placeholders of the clause text are $1..$N left to right, each once,
\* with N the number of bind values; the condition of the i-th filter
\* visited is the i-th of the WHERE clause, and the bind values at its
\* placeholders are the filter's coerced values; the text ends in LIMIT
\* $(N-1) OFFSET $N and the last two bind values are the effective limit
\* and offset.
C2_Placeholders ==
    Accepted
    => /\ PlaceholdersIn(last.clauses) = [k \in 1..Len(last.values) |-> k]
       /\ last.binds = last.values
       /\ Fragments(last.clauses) = last.texts
       /\ Len(last.texts) = Len(FilterOrder(req.order))
       /\ \A i \in 1..Len(FilterOrder(req.order)) :
              /\ HasPrefix(Fragments(last.clauses)[i],
                     ColumnOfTag(last.type,
                         StrippedKey(FilterOrder(req.order)[i])) \o <<" ">>)
              /\ [j \in 1..Len(PlaceholdersIn(Fragments(last.clauses)[i])) |->
                     last.values[PlaceholdersIn(Fragments(last.clauses)[i])[j]]]
                 = ExpectedBinds(FilterOrder(req.order)[i],
                                 req.qp[FilterOrder(req.order)[i]])
       /\ Len(last.values) >= 2
       /\ HasSuffix(last.clauses,
              <<"L", "I", "M", "I", "T", " ", "$">> \o Itoa(Len(last.values) - 1) \o
              <<" ", "O", "F", "F", "S", "E", "T", " ", "$">> \o Itoa(Len(last.values)))
       /\ last.values[Len(last.values) - 1] = IntV(EffectiveLimit)
       /\ last.values[Len(last.values)] = IntV(EffectiveOffset)

C2_Witness ==
    /\ Accepted
    /\ Len(FilterOrder(req.order)) = 2
    /\ FilterOrder(req.order)[1] = <<"m", "a", "x", "A", "t", "t", "e", "n", "d", "e", "e", "s", "_", "a", "n", "y", "O", "f">>
    /\ Len(last.values) = 6
    /\ <<"l", "i", "m", "i", "t">> \in DOMAIN req.qp
    /\ Contains(last.clauses, <<"L", "I", "M", "I", "T", " ", "$", "5", " ", "O", "F", "F", "S", "E", "T", " ", "$", "6">>)

\* The filter keys of the request that do not resolve, in visiting order.
UnresolvedKeys ==
    SelectSeq(FilterOrder(req.order),
              LAMBDA k : ~Resolves(last.type, StrippedKey(k)))

\* C3: when a key that is not reserved does not resolve to a column after
\* its operator suffix is stripped, the build fails with the
\* invalid-query-parameter error that names the stripped key (the first
\* such key visited), with empty clause text and no bind values, however
\* many valid filters were visited before it; and no statement is issued.
C3_UnknownKey ==
    (last.op \in QueryOps /\ Len(UnresolvedKeys) > 0)
    => /\ last.cerr =
              Err(<<"i", "n", "v", "a", "l", "i", "d", " ", "q", "u", "e", "r", "y", " ", "p", "a", "r", "a", "m", "e", "t", "e", "r", ":", " ">> \o StrippedKey(UnresolvedKeys[1]))
       /\ last.clauses = <<>>
       /\ last.values = <<>>
       /\ last.texts = <<>>
       /\ last.err =
              Err(<<"i", "n", "v", "a", "l", "i", "d", " ", "q", "u", "e", "r", "y", ":", " ", "i", "n", "v", "a", "l", "i", "d", " ", "q", "u", "e", "r", "y", " ", "p", "a", "r", "a", "m", "e", "t", "e", "r", ":", " ">>
                  \o StrippedKey(UnresolvedKeys[1]))
       /\ ~last.issued
       /\ last.query = <<>>

C3_Witness ==
    /\ last.op = "QueryEvents"
    /\ Len(FilterOrder(req.order)) = 2
    /\ Resolves("Event", StrippedKey(FilterOrder(req.order)[1]))
    /\ FilterOrder(req.order)[2] = <<"b", "o", "g", "u", "s", "_", "n", "e">>
    /\ last.cerr = Err(<<"i", "n", "v", "a", "l", "i", "d", " ", "q", "u", "e", "r", "y", " ", "p", "a", "r", "a", "m", "e", "t", "e", "r", ":", " ", "b", "o", "g", "u", "s">>)
    /\ last.clauses = <<>>

-----------------------------------------------------------------------------
(* Properties of the CRUD engine.                                          *)

GetOps == {"GetModelByID", "GetUserByID", "GetEventByID"}

\* The last call read a row by id into a pointer target, the driver working.
ReadBack == last.op \in GetOps /\ last.fail = "none" /\ last.ptr

\* The last call read the row that hist has a write of.
ReadOfWritten == ReadBack /\ last.id \in DOMAIN hist[last.type]

WrittenRead == hist[last.type][last.id]

ReturnsWritten ==
    /\ last.err.nil
    /\ last.op = "GetModelByID" => ~last.isNil
    /\ last.rec["ID"] = IntV(last.id)
    /\ \A n \in DOMAIN WrittenRead.vals : last.rec[n] = WrittenRead.vals[n]

\* C4 (amended): after Create(r) succeeds and returns id, and before any
\* Update or Delete of that id and any Delete of the user the row refers
\* to, GetByID(id) succeeds and returns a record whose identifier is id,
\* whose fields that are not readOnly equal those of r, and whose creation
\* timestamp is a reading of the store's clock.
C4_RoundTrip ==
    (ReadOfWritten /\ WrittenRead.how = "create" /\ WrittenRead.cascaded = 0)
    => /\ ReturnsWritten
       /\ last.rec["CreatedAt"] \in {TimeV(k) : k \in 1..(now - 1)}

C4_Witness ==
    /\ ReadOfWritten
    /\ last.type = "Event"
    /\ WrittenRead.how = "create"
    /\ WrittenRead.cascaded = 0
    /\ last.err.nil
    /\ last.rec["Name"] = StrV(<<"T", "e", "s", "t", " ", "E", "v", "e", "n", "t">>)

\* C4 as stated: after Create(r) succeeds and returns id, and before any
\* Update or Delete of that id, GetByID(id) succeeds and returns r's
\* writable fields.  A Delete of a user with another id is no Update or
\* Delete of that id.
C4_AsStated ==
    (ReadOfWritten /\ WrittenRead.how = "create"
        /\ WrittenRead.cascaded # last.id)
    => /\ ReturnsWritten
       /\ last.rec["CreatedAt"] \in {TimeV(k) : k \in 1..(now - 1)}

\* C5: after Update(r) succeeds on an existing row, and while that row is
\* neither written again nor removed, GetByID(r.id) returns every field
\* that is not readOnly equal to r's, zero values included.
C5_FullReplace ==
    (ReadOfWritten /\ WrittenRead.how = "update" /\ WrittenRead.cascaded = 0)
    => ReturnsWritten

C5_Witness ==
    /\ ReadOfWritten
    /\ last.type = "Event"
    /\ WrittenRead.how = "update"
    /\ WrittenRead.cascaded = 0
    /\ last.err.nil
    /\ last.rec["Name"] = StrV(<<>>)
    /\ last.rec["MaxAttendees"] = IntV(0)

\* C6: GetByID(id) returns an error and no record whenever no row has that
\* id; a row that Delete removed stays absent until a Create is assigned
\* its id; GetUserByID and GetEventByID return the zero record with the
\* error.
C6_AbsentFails ==
    /\ \A T \in StoredTypes : \A id \in DOMAIN hist[T] :
           hist[T][id].how = "delete" => id \notin Ids(tables, T)
    /\ (last.op \in GetOps /\ last.fail = "none"
           /\ last.id \notin Ids(tables, last.type))
       => /\ ~last.err.nil
          /\ last.op = "GetModelByID" => last.isNil
          /\ last.op # "GetModelByID" => last.rec = ZeroFields(last.type)

C6_Witness ==
    /\ last.op = "GetEventByID"
    /\ last.fail = "none"
    /\ last.id \in DOMAIN hist["Event"]
    /\ hist["Event"][last.id].how = "delete"
    /\ seqs["Event"] > last.id
    /\ ~last.err.nil
    /\ last.rec = ZeroFields("Event")

-----------------------------------------------------------------------------
(* Properties of the queries.                                              *)

\* The identifiers of the records of the last result, in order.
ResultIds == [i \in 1..Len(last.recs) |-> last.recs[i]["ID"].i]

\* Each record of the last result holds the stored row of its identifier.
ResultIsStored ==
    \A i \in 1..Len(last.recs) :
        /\ ResultIds[i] \in Ids(tables, last.type)
        /\ \A k \in 1..Len(Fields(last.type)) :
               last.recs[i][Fields(last.type)[k].name] =
                   tables[last.type][ResultIds[i]][Fields(last.type)[k].db]

\* The identifiers of a table, ascending.
RECURSIVE Ascending(_)
Ascending(ids) ==
    IF ids = {} THEN <<>>
    ELSE <<CHOOSE x \in ids : \A y \in ids : x <= y>> \o
         Ascending(ids \ {CHOOSE x \in ids : \A y \in ids : x <= y})

\* C7: a query with the empty map on a table of n rows returns min(10, n)
\* records: the rows with the smallest identifiers, ascending.
C7_DefaultPage ==
    (last.op \in QueryOps /\ last.fail = "none" /\ DOMAIN req.qp = {})
    => /\ last.err.nil
       /\ ~last.isNil
       /\ Len(last.recs) = Min(10, Cardinality(Ids(tables, last.type)))
       /\ ResultIds = SubSeq(Ascending(Ids(tables, last.type)), 1,
                             Len(last.recs))
       /\ ResultIsStored

C7_Witness ==
    /\ last.op = "QueryEvents"
    /\ last.fail = "none"
    /\ DOMAIN req.qp = {}
    /\ Cardinality(Ids(tables, "Event")) = 11
    /\ 2 \notin Ids(tables, "Event")
    /\ Len(last.recs) = 10
    /\ ResultIds[2] = 3

\* Whether the store takes the binds of the request: each filter value is
\* of the kind of its column, a _contains filter is on a text column, and
\* neither limit nor offset is negative.
StoreAccepts ==
    /\ \A k \in DOMAIN req.qp \ ReservedKeys :
           /\ \A i \in 1..Len(ExpectedBinds(k, req.qp[k])) :
                  \E f \in 1..Len(Fields(last.type)) :
                      /\ Fields(last.type)[f].json = StrippedKey(k)
                      /\ Fields(last.type)[f].kind =
                             ExpectedBinds(k, req.qp[k])[i].t
           /\ KeySuffix(k) = <<"_", "c", "o", "n", "t", "a", "i", "n", "s">>
                  => \E f \in 1..Len(Fields(last.type)) :
                         /\ Fields(last.type)[f].json = StrippedKey(k)
                         /\ Fields(last.type)[f].kind = "str"
    /\ EffectiveLimit >= 0
    /\ EffectiveOffset >= 0

\* Whether a stored row satisfies a filter of the request.
Satisfies(row, key, value) ==
    CASE KeySuffix(key) = <<>> ->
             row[ColumnOfTag(last.type, key)] = Coerced(value)
      [] KeySuffix(key) = <<"_", "n", "e">> ->
             row[ColumnOfTag(last.type, StrippedKey(key))] # Coerced(value)
      [] KeySuffix(key) = <<"_", "l", "t">> ->
             ValLess(row[ColumnOfTag(last.type, StrippedKey(key))],
                     Coerced(value))
      [] KeySuffix(key) = <<"_", "g", "t">> ->
             ValLess(Coerced(value),
                     row[ColumnOfTag(last.type, StrippedKey(key))])
      [] KeySuffix(key) = <<"_", "l", "t", "e">> ->
             ~ValLess(Coerced(value),
                      row[ColumnOfTag(last.type, StrippedKey(key))])
      [] KeySuffix(key) = <<"_", "g", "t", "e">> ->
             ~ValLess(row[ColumnOfTag(last.type, StrippedKey(key))],
                      Coerced(value))
      [] KeySuffix(key) = <<"_", "c", "o", "n", "t", "a", "i", "n", "s">> ->
             Contains(row[ColumnOfTag(last.type, StrippedKey(key))].s, value)
      [] KeySuffix(key) = <<"_", "a", "n", "y", "O", "f">> ->
             \E i \in 1..Len(Split(value, ",")) :
                 row[ColumnOfTag(last.type, StrippedKey(key))] =
                     Coerced(Split(value, ",")[i])

\* The rows that satisfy every filter of the request.
Matches ==
    {id \in Ids(tables, last.type) :
        \A k \in DOMAIN req.qp \ ReservedKeys :
            Satisfies(tables[last.type][id], k, req.qp[k])}

SortGiven == IF <<"s", "o", "r", "t", "B", "y">> \in DOMAIN req.qp THEN req.qp[<<"s", "o", "r", "t", "B", "y">>] ELSE <<>>

SortDescending == Len(SortGiven) > 0 /\ SortGiven[1] = "-"

SortColumn ==
    IF SortGiven \in {<<>>, <<"-">>} THEN <<"i", "d">>
    ELSE ColumnOfTag(last.type,
             IF SortDescending THEN Tail(SortGiven) ELSE SortGiven)

C9_ColumnsMatchSlots ==
    (last.op \in GetOps \cup QueryOps /\ last.slots # <<>>)
    => /\ Len(last.cols) = Len(last.slots)
       /\ Len(last.slots) = Len(Fields(last.type))
       /\ \A i \in 1..Len(last.slots) :
              /\ last.slots[i] = Fields(last.type)[i].name
              /\ last.cols[i] = Fields(last.type)[i].db

C9_Witness ==
    /\ last.op = "QueryEvents"
    /\ last.err.nil
    /\ Len(last.recs) = 2
    /\ Len(last.slots) = 7
    /\ last.cols[7] = <<"m", "a", "x", "_", "a", "t", "t", "e", "n", "d", "e", "e", "s">>

-----------------------------------------------------------------------------
(* Release of statement handles and result sets.                           *)

\* C10 as stated: no call returns while a statement handle or result set
\* it opened is still open.
C10_AllReleased == last.op # "none" => Leaked(last.trace) = 0

C10_Witness ==
    /\ last.op = "GetModelByID"
    /\ ~last.ptr
    /\ last.id \in Ids(tables, last.type)
    /\ last.err = Err(<<"e", "x", "p", "e", "c", "t", "e", "d", " ", "p", "o", "i", "n", "t", "e", "r", " ", "t", "o", " ", "m", "o", "d", "e", "l", ",", " ", "g", "o", "t", " ", "m", "o", "d", "e", "l", "s", ".", "E", "v", "e", "n", "t">>)
    /\ last.isNil
    /\ last.trace = <<"rows+">>
    /\ open = 1

-----------------------------------------------------------------------------
(* Concurrent Create calls.                                                *)

\* A call whose INSERT has been run and has assigned it an id.
Assigned(p) == calls[p].pc \in {"scan", "done"} /\ calls[p].err.nil

Returned(p) == calls[p].pc = "done" /\ calls[p].err.nil

\* The row of the table under the id of call p holds the values of the
\* writable fields of the record the call was given.
HoldsOwnValues(p) ==
    LET m == calls[p].m
        id == calls[p].id
    IN  /\ id \in Ids(tables, m.type)
        /\ \A n \in DOMAIN Writable(m) :
               tables[m.type][id][FieldByName(m.type, n).db] = m.f[n]

\* C11: under every interleaving of concurrent Create calls, each call
\* that succeeds returns an id the store assigned, different from the id of
\* every other call on the same table, and the row under that id holds the
\* call's own record values.
C11_OwnIdentifier ==
    \A p \in 1..MaxCalls :
        Assigned(p)
        => /\ calls[p].id >= 1
           /\ HoldsOwnValues(p)
           /\ \A q \in 1..MaxCalls :
                  (q # p /\ Assigned(q) /\ calls[q].m.type = calls[p].m.type)
                  => calls[q].id # calls[p].id

\* Two calls on the event table with different records both return, and
\* the call that began first holds the larger id.
C11_Witness ==
    /\ Returned(1) /\ Returned(2)
    /\ calls[1].m.type = "Event" /\ calls[2].m.type = "Event"
    /\ calls[1].m.f # calls[2].m.f
    /\ calls[1].turn < calls[2].turn
    /\ calls[1].id > calls[2].id

-----------------------------------------------------------------------------
(* Properties of the clause builder on its own.                            *)

Built == last.op = "buildQueryClauses"

BuiltOk == Built /\ last.cerr.nil

\* The SQL operator the grammar gives a key.
OperatorOf(key) ==
    LET sx == KeySuffix(key)
    IN  IF sx = <<"_", "n", "e">> THEN <<"!", "=">>
        ELSE IF sx = <<"_", "l", "t">> THEN <<"<">>
        ELSE IF sx = <<"_", "g", "t">> THEN <<">">>
        ELSE IF sx = <<"_", "l", "t", "e">> THEN <<"<", "=">>
        ELSE IF sx = <<"_", "g", "t", "e">> THEN <<">", "=">>
        ELSE IF sx = <<"_", "c", "o", "n", "t", "a", "i", "n", "s">> THEN <<"L", "I", "K", "E">>
        ELSE IF sx = <<"_", "a", "n", "y", "O", "f">> THEN <<"I", "N">>
        ELSE <<"=">>

\* The i-th filter key visited, its condition in the clause text and the
\* bind values at the placeholders of the condition.
FilterKey(i) == FilterOrder(req.order)[i]

Fragment(i) == Fragments(last.clauses)[i]

BoundAt(i) ==
    [j \in 1..Len(PlaceholdersIn(Fragment(i))) |->
        last.values[PlaceholdersIn(Fragment(i))[j]]]

\* C12: the operator of a condition is the one of its key's suffix; the
\* column is looked up under the key with exactly that one suffix removed,
\* so that a key that does not resolve then is rejected under that name;
\* and the value bound is the value given, between % signs for _contains
\* and as it is for every other suffix.
C12_SuffixOperator ==
    Built
    => /\ Len(UnresolvedKeys) > 0
          => last.cerr = Err(<<"i", "n", "v", "a", "l", "i", "d", " ", "q", "u", "e", "r", "y", " ", "p", "a", "r", "a", "m", "e", "t", "e", "r", ":", " ">>
                             \o StrippedKey(UnresolvedKeys[1]))
       /\ Len(UnresolvedKeys) = 0 /\ last.cerr.nil
          => /\ Len(Fragments(last.clauses)) = Len(FilterOrder(req.order))
             /\ \A i \in 1..Len(FilterOrder(req.order)) :
                    /\ HasPrefix(Fragment(i),
                           ColumnOfTag(last.type, StrippedKey(FilterKey(i)))
                           \o <<" ">> \o OperatorOf(FilterKey(i)) \o <<" ">>)
                    /\ KeySuffix(FilterKey(i)) # <<"_", "a", "n", "y", "O", "f">>
                       => BoundAt(i) =
                              <<Coerced(
                                  IF KeySuffix(FilterKey(i)) = <<"_", "c", "o", "n", "t", "a", "i", "n", "s">>
                                  THEN <<"%">> \o req.qp[FilterKey(i)] \o <<"%">>
                                  ELSE req.qp[FilterKey(i)])>>

\* A _lte filter and a _contains filter in one accepted request.
C12_Witness ==
    /\ BuiltOk
    /\ last.type = "Event"
    /\ FilterOrder(req.order) = <<<<"m", "a", "x", "A", "t", "t", "e", "n", "d", "e", "e", "s", "_", "l", "t", "e">>, <<"n", "a", "m", "e", "_", "c", "o", "n", "t", "a", "i", "n", "s">>>>
    /\ last.texts = <<<<"m", "a", "x", "_", "a", "t", "t", "e", "n", "d", "e", "e", "s", " ", "<", "=", " ", "$", "1">>, <<"n", "a", "m", "e", " ", "L", "I", "K", "E", " ", "$", "2">>>>
    /\ last.values[1] = IntV(75)
    /\ last.values[2] = StrV(<<"%", "E", "v", "e", "n", "t", "%">>)

\* The elements of a _anyOf value: what stands between its commas.
Elements(value) == SplitOn(value, <<",">>)

\* The first placeholder number free at the i-th condition: one after the
\* last placeholder of the condition before it.
NextFree(i) ==
    IF i = 1 THEN 1
    ELSE PlaceholdersIn(Fragment(i - 1))[Len(PlaceholdersIn(Fragment(i - 1)))] + 1

\* C13: a _anyOf key whose value has k elements gives one condition
\* `<column> IN ($n,...,$n+k-1)`, n the next free placeholder number, and
\* k bind values, the elements in list order, each coerced on its own;
\* the condition after it, or LIMIT when it is the last, goes on at $n+k.
C13_AnyOfList ==
    BuiltOk
    => /\ Len(Fragments(last.clauses)) = Len(FilterOrder(req.order))
       /\ \A i \in 1..Len(FilterOrder(req.order)) :
              KeySuffix(FilterKey(i)) = <<"_", "a", "n", "y", "O", "f">>
              => LET es == Elements(req.qp[FilterKey(i)])
                     k == Len(es)
                     n == NextFree(i)
                 IN  /\ k >= 1
                     /\ Fragment(i) =
                            ColumnOfTag(last.type, StrippedKey(FilterKey(i)))
                            \o <<" ", "I", "N", " ", "(">>
                            \o Join([j \in 1..k |-> <<"$">> \o Itoa(n + j - 1)],
                                    <<",">>)
                            \o <<")">>
                     /\ \A j \in 1..k : last.values[n + j - 1] = Coerced(es[j])
                     /\ IF i < Len(FilterOrder(req.order))
                        THEN PlaceholdersIn(Fragment(i + 1))[1] = n + k
                        ELSE HasSuffix(last.clauses,
                                 <<" ", "L", "I", "M", "I", "T", " ", "$">> \o Itoa(n + k) \o
                                 <<" ", "O", "F", "F", "S", "E", "T", " ", "$">> \o Itoa(n + k + 1))

\* A list of three elements, the middle one empty, between two filters.
C13_Witness ==
    /\ BuiltOk
    /\ FilterOrder(req.order) =
           <<<<"i", "d", "_", "g", "t", "e">>, <<"n", "a", "m", "e", "_", "a", "n", "y", "O", "f">>, <<"d", "e", "s", "c", "r", "i", "p", "t", "i", "o", "n", "_", "c", "o", "n", "t", "a", "i", "n", "s">>>>
    /\ last.texts =
           <<<<"i", "d", " ", ">", "=", " ", "$", "1">>, <<"n", "a", "m", "e", " ", "I", "N", " ", "(", "$", "2", ",", "$", "3", ",", "$", "4", ")">>, <<"d", "e", "s", "c", "r", "i", "p", "t", "i", "o", "n", " ", "L", "I", "K", "E", " ", "$", "5">>>>
    /\ SubSeq(last.values, 2, 4) = <<StrV(<<"a">>), StrV(<<>>), StrV(<<"b">>)>>
    /\ Len(last.values) = 7

\* The ORDER BY fragment of a clause text: what stands between ORDER BY
\* and LIMIT.
OrderFragment(clauses) ==
    SubSeq(clauses, FindSub(clauses, <<"O", "R", "D", "E", "R", " ", "B", "Y", " ">>) + 9,
           FindSub(clauses, <<" ", "L", "I", "M", "I", "T", " ">>) - 1)

\* The name a sortBy value gives: the value without a leading '-'.
SortName == IF SortDescending THEN Tail(SortGiven) ELSE SortGiven

\* C14: in an accepted request the ORDER BY fragment ends in DESC when the
\* sortBy value starts with '-' and in ASC otherwise, and its column is
\* the column of the external name sortBy gives without the '-'; with no
\* sortBy in the map the fragment is the identifier column ASC.
C14_OrderBy ==
    BuiltOk
    => /\ Contains(last.clauses, <<"O", "R", "D", "E", "R", " ", "B", "Y", " ">>)
       /\ IF SortDescending
          THEN HasSuffix(OrderFragment(last.clauses), <<" ", "D", "E", "S", "C">>)
          ELSE HasSuffix(OrderFragment(last.clauses), <<" ", "A", "S", "C">>)
       /\ Resolves(last.type, SortName)
          => OrderFragment(last.clauses) =
                 ColumnOfTag(last.type, SortName) \o
                 (IF SortDescending THEN <<" ", "D", "E", "S", "C">> ELSE <<" ", "A", "S", "C">>)
       /\ <<"s", "o", "r", "t", "B", "y">> \notin DOMAIN req.qp
          => OrderFragment(last.clauses) =
                 FieldByName(last.type, "ID").db \o <<" ", "A", "S", "C">>

\* sortBy=-name after a filter.
C14_Witness ==
    /\ BuiltOk
    /\ last.type = "Event"
    /\ SortGiven = <<"-", "n", "a", "m", "e">>
    /\ Len(FilterOrder(req.order)) = 1
    /\ OrderFragment(last.clauses) = <<"n", "a", "m", "e", " ", "D", "E", "S", "C">>

\* What a failed build returns: no clause text, no bind values.
NothingBuilt ==
    /\ ~last.cerr.nil
    /\ last.clauses = <<>>
    /\ last.values = <<>>
    /\ last.texts = <<>>

\* C15 (amended): a sortBy value whose name, after a leading '-' is
\* removed, is not empty and is no external name of the record type makes
\* the build fail with no clause text and no bind values: with the error
\* that names the sort name when every filter key is valid, and with the
\* error of the first filter key that does not resolve otherwise.
C15_UnknownSort ==
    (Built /\ SortName # <<>> /\ ~Resolves(last.type, SortName))
    => /\ NothingBuilt
       /\ last.cerr =
              IF Len(UnresolvedKeys) > 0
              THEN Err(<<"i", "n", "v", "a", "l", "i", "d", " ", "q", "u", "e", "r", "y", " ", "p", "a", "r", "a", "m", "e", "t", "e", "r", ":", " ">>
                       \o StrippedKey(UnresolvedKeys[1]))
              ELSE Err(<<"i", "n", "v", "a", "l", "i", "d", " ", "s", "o", "r", "t", " ", "v", "a", "l", "u", "e", ":", " ">> \o SortName)

\* sortBy=-bogus after three valid filters.
C15_Witness ==
    /\ Built
    /\ last.type = "Event"
    /\ Len(FilterOrder(req.order)) = 3
    /\ Len(UnresolvedKeys) = 0
    /\ SortGiven = <<"-", "b", "o", "g", "u", "s">>
    /\ <<"l", "i", "m", "i", "t">> \in DOMAIN req.qp
    /\ last.cerr = Err(<<"i", "n", "v", "a", "l", "i", "d", " ", "s", "o", "r", "t", " ", "v", "a", "l", "u", "e", ":", " ", "b", "o", "g", "u", "s">>)
    /\ last.clauses = <<>>

\* C15 as stated: every sortBy value whose name is no external name of
\* the record type makes the build fail.
C15_AsStated ==
    (Built /\ <<"s", "o", "r", "t", "B", "y">> \in DOMAIN req.qp /\ ~Resolves(last.type, SortName))
    => NothingBuilt

\* Whether a text is an integer in decimal: digits after an optional sign.
IsInteger(s) ==
    /\ Len(s) > 0
    /\ AllDigits(IF s[1] \in {"+", "-"} THEN Tail(s) ELSE s)

IntegerOf(s) ==
    IF s[1] = "-" THEN 0 - DigitsVal(Tail(s))
    ELSE DigitsVal(IF s[1] = "+" THEN Tail(s) ELSE s)

\* limit or offset is in the map and is no integer.
BadPage(key) == key \in DOMAIN req.qp /\ ~IsInteger(req.qp[key])

PageValue(key, default) ==
    IF key \in DOMAIN req.qp THEN IntegerOf(req.qp[key]) ELSE default

\* The sort stage accepts the request: the name resolves, the empty name
\* as id.
SortAccepted ==
    Resolves(last.type, IF SortName = <<>> THEN <<"i", "d">> ELSE SortName)

\* C16 (amended): a limit or offset that is in the map and does not parse
\* as an integer makes the build fail with no clause text and no bind
\* values, and with the pagination error, of limit before offset, when
\* the filter keys and the sort name are valid; in an accepted request
\* the last two bind values are the parsed limit and offset, 10 and 0
\* for the one that is absent.
C16_Pagination ==
    Built
    => /\ (BadPage(<<"l", "i", "m", "i", "t">>) \/ BadPage(<<"o", "f", "f", "s", "e", "t">>))
          => /\ NothingBuilt
             /\ (Len(UnresolvedKeys) = 0 /\ SortAccepted)
                => HasPrefix(last.cerr.msg,
                       IF BadPage(<<"l", "i", "m", "i", "t">>)
                       THEN <<"p", "a", "g", "i", "n", "a", "t", "i", "o", "n", " ", "e", "r", "r", ";", " ", "l", "i", "m", "i", "t", " ", "m", "u", "s", "t", " ", "b", "e", " ", "a", " ", "n", "u", "m", "b", "e", "r", ":", " ">>
                       ELSE <<"p", "a", "g", "i", "n", "a", "t", "i", "o", "n", " ", "e", "r", "r", ";", " ", "o", "f", "f", "s", "e", "t", " ", "m", "u", "s", "t", " ", "b", "e", " ", "a", " ", "n", "u", "m", "b", "e", "r", ":", " ">>)
       /\ last.cerr.nil
          => /\ Len(last.values) >= 2
             /\ last.values[Len(last.values) - 1] =
                    IntV(PageValue(<<"l", "i", "m", "i", "t">>, 10))
             /\ last.values[Len(last.values)] =
                    IntV(PageValue(<<"o", "f", "f", "s", "e", "t">>, 0))

\* A valid filter and limit with an offset that is no integer.
C16_Witness ==
    /\ Built
    /\ Len(FilterOrder(req.order)) = 1
    /\ Len(UnresolvedKeys) = 0
    /\ SortAccepted
    /\ <<"l", "i", "m", "i", "t">> \in DOMAIN req.qp /\ ~BadPage(<<"l", "i", "m", "i", "t">>)
    /\ BadPage(<<"o", "f", "f", "s", "e", "t">>)
    /\ NothingBuilt
    /\ HasPrefix(last.cerr.msg, <<"p", "a", "g", "i", "n", "a", "t", "i", "o", "n", " ", "e", "r", "r", ";", " ", "o", "f", "f", "s", "e", "t", " ", "m", "u", "s", "t", " ", "b", "e", " ", "a", " ", "n", "u", "m", "b", "e", "r", ":", " ">>)

\* C16 as stated: a limit or offset that does not parse makes the build
\* fail with a pagination error.
C16_AsStated ==
    (Built /\ (BadPage(<<"l", "i", "m", "i", "t">>) \/ BadPage(<<"o", "f", "f", "s", "e", "t">>)))
    => /\ NothingBuilt
       /\ HasPrefix(last.cerr.msg, <<"p", "a", "g", "i", "n", "a", "t", "i", "o", "n", " ", "e", "r", "r", ";", " ">>)

\* The keys of the request other than sortBy, limit and offset, in
\* visiting order.
NonReserved ==
    SelectSeq(req.order, LAMBDA k : k \notin {<<"s", "o", "r", "t", "B", "y">>, <<"l", "i", "m", "i", "t">>, <<"o", "f", "f", "s", "e", "t">>})

\* The number of bind values the filters of a key sequence stand for.
RECURSIVE BindCount(_)
BindCount(keys) ==
    IF keys = <<>> THEN 0
    ELSE (IF KeySuffix(Head(keys)) = <<"_", "a", "n", "y", "O", "f">>
          THEN Len(Elements(req.qp[Head(keys)])) ELSE 1)
         + BindCount(Tail(keys))

\* C17: sortBy, limit and offset are never taken as filters.  A map whose
\* other keys resolve, whose sort name is valid and whose limit and offset
\* parse is accepted; the WHERE part of an accepted map has one condition
\* per key other than the three, joined with AND, and the bind values are
\* those of these conditions and then limit and offset; a map with no
\* other key has no WHERE part.
C17_ReservedKeys ==
    Built
    => /\ ( /\ \A i \in 1..Len(NonReserved) :
                  Resolves(last.type, StrippedKey(NonReserved[i]))
            /\ SortAccepted
            /\ ~BadPage(<<"l", "i", "m", "i", "t">>) /\ ~BadPage(<<"o", "f", "f", "s", "e", "t">>) )
          => last.cerr.nil
       /\ last.cerr.nil
          => /\ Len(last.texts) = Len(NonReserved)
             /\ Len(Fragments(last.clauses)) = Len(NonReserved)
             /\ Len(last.values) = BindCount(NonReserved) + 2
             /\ IF Len(NonReserved) = 0
                THEN /\ ~Contains(last.clauses, <<"W", "H", "E", "R", "E">>)
                     /\ HasPrefix(last.clauses, <<"O", "R", "D", "E", "R", " ", "B", "Y", " ">>)
                ELSE HasPrefix(last.clauses,
                         <<"W", "H", "E", "R", "E", " ">> \o Join(last.texts, <<" ", "A", "N", "D", " ">>)
                         \o <<" ", "O", "R", "D", "E", "R", " ", "B", "Y", " ">>)

\* Two filters with all of sortBy, limit and offset in the map.
C17_Witness ==
    /\ BuiltOk
    /\ Len(NonReserved) = 2
    /\ {<<"s", "o", "r", "t", "B", "y">>, <<"l", "i", "m", "i", "t">>, <<"o", "f", "f", "s", "e", "t">>} \subseteq DOMAIN req.qp
    /\ Len(Fragments(last.clauses)) = 2
    /\ Contains(last.clauses, <<" ", "A", "N", "D", " ">>)
    /\ Len(last.values) = 4

\* Whether a text is a decimal number: an optional sign, then digits with
\* at most one point among them.
IsDecimal(s) ==
    LET body == IF Len(s) > 0 /\ s[1] \in {"+", "-"} THEN Tail(s) ELSE s
    IN  /\ \E i \in 1..Len(body) : IsDigit(body[i])
        /\ \A i \in 1..Len(body) : IsDigit(body[i]) \/ body[i] = "."
        /\ Cardinality({i \in 1..Len(body) : body[i] = "."}) <= 1

\* The texts the i-th filter hands to the coercion: the elements of a
\* _anyOf value, the value between % signs for _contains, else the value.
RawValues(i) ==
    IF KeySuffix(FilterKey(i)) = <<"_", "a", "n", "y", "O", "f">>
    THEN Elements(req.qp[FilterKey(i)])
    ELSE IF KeySuffix(FilterKey(i)) = <<"_", "c", "o", "n", "t", "a", "i", "n", "s">>
    THEN <<<<"%">> \o req.qp[FilterKey(i)] \o <<"%">>>>
    ELSE <<req.qp[FilterKey(i)]>>

\* C18: every filter value, and every element of a _anyOf list on its
\* own, is bound as an integer when it parses as one, else as a float when
\* it parses as one, else as the string it is; and the value of a
\* _contains filter is always bound as a string.
C18_Coercion ==
    BuiltOk
    => \A i \in 1..Len(FilterOrder(req.order)) :
           /\ Len(BoundAt(i)) = Len(RawValues(i))
           /\ \A j \in 1..Len(RawValues(i)) :
                  BoundAt(i)[j] =
                      IF IsInteger(RawValues(i)[j])
                      THEN IntV(IntegerOf(RawValues(i)[j]))
                      ELSE IF IsDecimal(RawValues(i)[j])
                      THEN FloatV(RawValues(i)[j])
                      ELSE StrV(RawValues(i)[j])
           /\ KeySuffix(FilterKey(i)) = <<"_", "c", "o", "n", "t", "a", "i", "n", "s">>
              => BoundAt(i)[1].t = "str"

\* name_contains=25 is bound as the string %25%, maxAttendees_gt=49.5 as
\* a float.
C18_Witness ==
    /\ BuiltOk
    /\ FilterOrder(req.order) = <<<<"n", "a", "m", "e", "_", "c", "o", "n", "t", "a", "i", "n", "s">>, <<"m", "a", "x", "A", "t", "t", "e", "n", "d", "e", "e", "s", "_", "g", "t">>>>
    /\ req.qp[<<"n", "a", "m", "e", "_", "c", "o", "n", "t", "a", "i", "n", "s">>] = <<"2", "5">>
    /\ last.values[1] = StrV(<<"%", "2", "5", "%">>)
    /\ last.values[2] = FloatV(<<"4", "9", ".", "5">>)

-----------------------------------------------------------------------------
(* Properties of the column lists and the tag map.                         *)

Derived == last.op = "GetColumnNames"

\* The positions of the struct fields of a type that carry, or do not
\* carry, readOnly:"true".
ReadOnlyAt(T) == {i \in 1..Len(Fields(T)) : Fields(T)[i].ro}

\* A sequence without the elements at the given positions.
RECURSIVE Dropped(_, _, _)
Dropped(s, at, i) ==
    IF i > Len(s) THEN <<>>
    ELSE (IF i \in at THEN <<>> ELSE <<s[i]>>) \o Dropped(s, at, i + 1)

\* C19: the column list without read-only fields is the full column list
\* with the columns of the read-only fields taken out and the others left
\* in their order; the identifier and the creation timestamp are read-only
\* fields; a read-only field's column is in the full list and not in the
\* other.
C19_WritableColumns ==
    Derived
    => /\ Len(last.all) = Len(Fields(last.type))
       /\ last.writable = Dropped(last.all, ReadOnlyAt(last.type), 1)
       /\ \A n \in {"ID", "CreatedAt"} : FieldByName(last.type, n).ro
       /\ \A i \in ReadOnlyAt(last.type) :
              /\ last.all[i] = Fields(last.type)[i].db
              /\ \A j \in 1..Len(last.writable) :
                     last.writable[j] # Fields(last.type)[i].db

\* The lists of a filled event.
C19_Witness ==
    /\ Derived
    /\ last.type = "Event"
    /\ last.m.f["Name"] # StrV(<<>>)
    /\ Len(last.all) = 7
    /\ last.writable = <<<<"u", "s", "e", "r", "_", "i", "d">>, <<"n", "a", "m", "e">>, <<"d", "e", "s", "c", "r", "i", "p", "t", "i", "o", "n">>, <<"s", "t", "a", "r", "t", "_", "d", "a", "t", "e">>,
                         <<"m", "a", "x", "_", "a", "t", "t", "e", "n", "d", "e", "e", "s">>>>

\* The db tags of a type's fields in declaration order, and its json tags
\* with the db tag of the last field that carries each.
DeclaredColumns(T) == [i \in 1..Len(Fields(T)) |-> Fields(T)[i].db]

DeclaredTags(T) == {Fields(T)[i].json : i \in 1..Len(Fields(T))}

\* C20: whatever values the record holds, whether it is held by value or
\* by pointer and whatever was called before, a derivation gives the
\* columns of the type in declaration order and the tag map of the type,
\* the same for two derivations that follow one another on records of one
\* type, and leaves the tables, the sequences and the handles as they
\* were.
C20_SameDerivation ==
    [][ last'.op = "GetColumnNames"
        => /\ last'.all = DeclaredColumns(last'.type)
           /\ DOMAIN last'.jsonMap = DeclaredTags(last'.type)
           /\ \A i \in 1..Len(Fields(last'.type)) :
                  (\A j \in (i + 1)..Len(Fields(last'.type)) :
                       Fields(last'.type)[j].json # Fields(last'.type)[i].json)
                  => last'.jsonMap[Fields(last'.type)[i].json]
                         = Fields(last'.type)[i].db
           /\ (last.op = "GetColumnNames" /\ last.type = last'.type)
              => /\ last'.all = last.all
                 /\ last'.writable = last.writable
                 /\ last'.jsonMap = last.jsonMap
           /\ UNCHANGED <<tables, seqs, now, open, hist>> ]_vars

\* A derivation on a filled record held by pointer after rows were
\* created.
C20_Witness ==
    /\ Derived
    /\ last.type = "User"
    /\ last.m.ptr
    /\ last.m.f["Email"] # StrV(<<>>)
    /\ tables["User"] # <<>>
    /\ last.all = <<<<"i", "d">>, <<"e", "m", "a", "i", "l">>, <<"p", "a", "s", "s", "w", "o", "r", "d">>, <<"c", "r", "e", "a", "t", "e", "d", "_", "a", "t">>>>
    /\ last.jsonMap[<<"c", "r", "e", "a", "t", "e", "d", "A", "t">>] = <<"c", "r", "e", "a", "t", "e", "d", "_", "a", "t">>

\* The columns of the fields of a type that do not carry readOnly:"true",
\* in declaration order.
WritableColumns(T) == Dropped(DeclaredColumns(T), ReadOnlyAt(T), 1)

\* The field of a type that is not read-only and has the given column.
WritableField(T, col) ==
    CHOOSE i \in (1..Len(Fields(T))) \ ReadOnlyAt(T) : Fields(T)[i].db = col

\* C21: the INSERT of a Create names exactly the n columns of the fields
\* that are not read-only, in declaration order, with the placeholders $1
\* to $n; the values it binds are n, the i-th being the record's value of
\* the field whose column is the i-th; the values of the identifier and of
\* the creation timestamp are never bound.
C21_BoundValues ==
    last.op = "Create"
    => /\ last.cols = WritableColumns(last.type)
       /\ Words(last.query) =
              <<<<"I", "N", "S", "E", "R", "T">>, <<"I", "N", "T", "O">>, TableName(last.type)>>
              \o WritableColumns(last.type) \o <<<<"V", "A", "L", "U", "E", "S">>>>
              \o [i \in 1..Len(WritableColumns(last.type)) |-> <<"$">> \o Itoa(i)]
              \o <<<<"R", "E", "T", "U", "R", "N", "I", "N", "G">>, <<"i", "d">>>>
       /\ last.fail # "prepare"
          => /\ Len(last.binds) = Len(WritableColumns(last.type))
             /\ \A i \in 1..Len(last.binds) :
                    last.binds[i] =
                        last.given[Fields(last.type)[
                            WritableField(last.type, last.cols[i])].name]

\* A Create of an event that carries an id and a creation time has bound
\* its five other values.
C21_Witness ==
    /\ last.op = "Create"
    /\ last.type = "Event"
    /\ last.err.nil
    /\ last.given["ID"] = IntV(MaxEventId)
    /\ last.given["CreatedAt"] = TimeV(9)
    /\ last.binds = <<IntV(1), StrV(<<"T", "e", "s", "t", " ", "E", "v", "e", "n", "t">>), StrV(<<"A", " ", "t", "e", "s", "t", " ", "e", "v", "e", "n", "t">>),
                      TimeV(5), IntV(25)>>

Opened(trace, h) == Cardinality({i \in 1..Len(trace) : trace[i] = h})

\* C23: a call of Create, Update, Delete, GetModelByID (and the typed
\* reads through it) or QueryModel (and QueryEvents through it) during
\* which the driver fails at Prepare, at the execution or at the scan
\* returns an error that carries the driver's, and no id, record or
\* collection; it prepares at most one statement and opens at most one
\* result set, none after a failed Prepare, and the tables are as before.
C23_StorageFailure ==
    [][ last'.fail # "none"
        => /\ ~last'.err.nil
           /\ Contains(last'.err.msg, DriverErr)
           /\ last'.op = "Create" => last'.id = 0
           /\ last'.op = "GetModelByID" => last'.isNil
           /\ last'.op \in {"GetUserByID", "GetEventByID"}
              => last'.rec = ZeroFields(last'.type)
           /\ last'.op \in {"QueryModel", "QueryEvents"}
              => last'.isNil /\ last'.recs = <<>>
           /\ Opened(last'.trace, "stmt+") <= 1
           /\ Opened(last'.trace, "rows+") <= 1
           /\ last'.fail = "prepare" => last'.trace = <<>>
           /\ tables' = tables ]_vars

\* QueryEvents on a table with a row, during which the scan failed.
C23_Witness ==
    /\ last.op = "QueryEvents"
    /\ last.fail = "scan"
    /\ tables["Event"] # <<>>
    /\ last.issued
    /\ ~last.err.nil

\* The rows of the result set the last scan was given that the caller had
\* not taken, and whether a row scans into a record of the type: it has a
\* column of the field's kind for every field.
Remaining == SubSeq(last.all, last.taken + 1, Len(last.all))

Scans(T, row) ==
    /\ Len(row) = Len(Fields(T))
    /\ \A j \in 1..Len(row) : row[j].t = Fields(T)[j].kind

\* C24: ScanRowsToSliceOfModels returns one record for every row the
\* result set still had, in the rows' order, each holding the columns of
\* its row, whatever the expected count; if a row does not scan or the
\* iteration ended with an error it returns an error and no collection.
C24_ScanMany ==
    last.op = "ScanRowsToSliceOfModels"
    => IF (\A i \in 1..Len(Remaining) : Scans(last.type, Remaining[i]))
          /\ last.terminal.nil
       THEN /\ last.err.nil
            /\ ~last.isNil
            /\ Len(last.recs) = Len(Remaining)
            /\ \A i \in 1..Len(Remaining) :
                   \A j \in 1..Len(Fields(last.type)) :
                       last.recs[i][Fields(last.type)[j].name]
                           = Remaining[i][j]
       ELSE /\ ~last.err.nil
            /\ last.isNil
            /\ last.recs = <<>>

\* Three rows were scanned into three records under an expected count of
\* one.
C24_Witness ==
    /\ last.op = "ScanRowsToSliceOfModels"
    /\ last.expectedRows = 1
    /\ Len(last.all) = MaxScanRows
    /\ last.taken = 0
    /\ Len(last.recs) = MaxScanRows
    /\ last.recs[1]["ID"] # last.recs[3]["ID"]

\* What a JSON decoder reads from the inside of a JSON string.
RECURSIVE JsonUnquote(_)
JsonUnquote(s) ==
    IF s = <<>> THEN <<>>
    ELSE IF s[1] # "\\" THEN <<s[1]>> \o JsonUnquote(Tail(s))
    ELSE IF s[2] = "u"
    THEN <<CASE SubSeq(s, 3, 6) = <<"0", "0", "3", "c">> -> "<"
             [] SubSeq(s, 3, 6) = <<"0", "0", "3", "e">> -> ">"
             [] SubSeq(s, 3, 6) = <<"0", "0", "2", "6">> -> "&">>
         \o JsonUnquote(SubSeq(s, 7, Len(s)))
    ELSE <<IF s[2] = "n" THEN "\n" ELSE s[2]>>
         \o JsonUnquote(SubSeq(s, 3, Len(s)))

\* The body of an error response is {"status":"...","message":"..."};
\* the two members as a decoder reads them.
StatusKey == <<"{">> \o <<"\"">> \o <<"s", "t", "a", "t", "u", "s">> \o <<"\"">> \o <<":">> \o <<"\"">>

MessageKey ==
    <<"\"">> \o <<",">> \o <<"\"">> \o <<"m", "e", "s", "s", "a", "g", "e">> \o <<"\"">> \o <<":">> \o <<"\"">>

IsErrorBody(body) ==
    /\ HasPrefix(body, StatusKey)
    /\ FindSub(body, MessageKey) > 0
    /\ SubSeq(body, Len(body) - 1, Len(body)) = <<"\"">> \o <<"}">>

StatusMember(body) ==
    JsonUnquote(SubSeq(body, Len(StatusKey) + 1, FindSub(body, MessageKey) - 1))

MessageMember(body) ==
    JsonUnquote(SubSeq(body, FindSub(body, MessageKey) + Len(MessageKey),
                       Len(body) - 2))

\* C25: SendErrorJSON writes the header with the status code it is given
\* and, the connection taking the write, a body whose status member is
\* "error" when the code is 500 or more and "fail" otherwise and whose
\* message member reads back as the text of the error; marshalAndSend
\* given a value that is neither envelope returns the error "unsupported
\* type: ..." and writes no header and no body.
C25_ErrorResponse ==
    /\ last.op = "SendErrorJSON"
       => /\ last.w.wroteHeader
          /\ last.w.code = last.statusCode
          /\ last.fail = "none"
             => /\ last.err.nil
                /\ IsErrorBody(last.w.body)
                /\ StatusMember(last.w.body) =
                       (IF last.statusCode >= 500 THEN <<"e", "r", "r", "o", "r">> ELSE <<"f", "a", "i", "l">>)
                /\ MessageMember(last.w.body) = last.message
    /\ (last.op = "marshalAndSend"
        /\ last.jsonRes.kind \notin {"successJSON", "errorJSON"})
       => /\ ~last.err.nil
          /\ HasPrefix(last.err.msg, <<"u", "n", "s", "u", "p", "p", "o", "r", "t", "e", "d", " ", "t", "y", "p", "e", ":", " ">>)
          /\ ~last.w.wroteHeader
          /\ last.w.contentType = <<>>
          /\ last.w.body = <<>>

\* An error whose text has quotes and an ampersand was sent with code 500.
C25_Witness ==
    /\ last.op = "SendErrorJSON"
    /\ last.statusCode = 500
    /\ last.fail = "none"
    /\ Contains(last.message, <<"&">>)
    /\ Contains(last.w.body, <<"u", "0", "0", "2", "6">>)
    /\ StatusMember(last.w.body) = <<"e", "r", "r", "o", "r">>

\* The rows a step leaves as they were: every row of every table but the
\* given ones is there afterwards with the same columns, and no row is new.
RowsKeptBut(changed) ==
    \A T \in StoredTypes :
        /\ Ids(tables', T) \subseteq Ids(tables, T)
        /\ \A k \in Ids(tables, T) :
               <<T, k>> \notin changed
               => k \in Ids(tables', T) /\ tables'[T][k] = tables[T][k]

\* The words of "c1 = $1, c2 = $2, ..." for the columns from the i-th on.
RECURSIVE SetWords(_, _)
SetWords(cols, i) ==
    IF i > Len(cols) THEN <<>>
    ELSE <<cols[i], <<"=">>, <<"$">> \o Itoa(i)>> \o SetWords(cols, i + 1)

\* What C26 says of the statements: the Update sets the columns that are
\* not read-only from $1 on and binds the record's id last, for the WHERE
\* condition; the Delete binds it alone; the updated row keeps its id and
\* its creation time.
WhereBindsId ==
    /\ last'.op = "Update"
       => /\ Words(last'.query) =
                 <<<<"U", "P", "D", "A", "T", "E">>, TableName(last'.type), <<"S", "E", "T">>>>
                 \o SetWords(WritableColumns(last'.type), 1)
                 \o <<<<"W", "H", "E", "R", "E">>, <<"i", "d">>, <<"=">>,
                      <<"$">> \o Itoa(Len(WritableColumns(last'.type)) + 1)>>
          /\ last'.fail # "prepare"
             => /\ Len(last'.binds) = Len(WritableColumns(last'.type)) + 1
                /\ last'.binds[Len(last'.binds)] = IntV(last'.id)
          /\ last'.id \in Ids(tables, last'.type)
             => /\ last'.id \in Ids(tables', last'.type)
                /\ \A c \in {<<"i", "d">>, <<"c", "r", "e", "a", "t", "e", "d", "_", "a", "t">>} :
                       tables'[last'.type][last'.id][c]
                           = tables[last'.type][last'.id][c]
    /\ last'.op = "Delete"
       => /\ Words(last'.query) =
                 <<<<"D", "E", "L", "E", "T", "E">>, <<"F", "R", "O", "M">>, TableName(last'.type), <<"W", "H", "E", "R", "E">>,
                   <<"i", "d">>, <<"=">>, <<"$", "1">>>>
          /\ last'.fail # "prepare" => last'.binds = <<IntV(last'.id)>>

\* C26 as stated: an Update or a Delete changes no row but the one with
\* the record's id in the record's table.
C26_AsStated ==
    [][ last'.op \in {"Update", "Delete"}
        => /\ RowsKeptBut({<<last'.type, last'.id>>})
           /\ WhereBindsId ]_vars

\* C26 (amended): an Update changes no row but the one with the record's
\* id; a Delete changes no row but that one and, when it is a user, the
\* events that refer to it, which go with it; the updated row keeps its id
\* and creation time whatever the record carries there; the id is bound
\* last, for the WHERE condition alone.
C26_OnlyItsRow ==
    [][ last'.op \in {"Update", "Delete"}
        => /\ RowsKeptBut(
                  {<<last'.type, last'.id>>}
                  \cup (IF last'.op = "Delete" /\ last'.type = "User"
                        THEN {<<"Event", e>> :
                                e \in {k \in Ids(tables, "Event") :
                                         tables["Event"][k][<<"u", "s", "e", "r", "_", "i", "d">>]
                                             = IntV(last'.id)}}
                        ELSE {}))
           /\ WhereBindsId ]_vars

\* An event that carries another creation time was updated while there
\* were two users.
C26_Witness ==
    /\ last.op = "Update"
    /\ last.type = "Event"
    /\ last.err.nil
    /\ last.id \in Ids(tables, "Event")
    /\ last.given["CreatedAt"] = TimeV(9)
    /\ tables["Event"][last.id][<<"c", "r", "e", "a", "t", "e", "d", "_", "a", "t">>] # TimeV(9)
    /\ Cardinality(Ids(tables, "User")) = 2

\* What GetModelByID into a new record of T gives for id after the step.
ReadAfter(T, id) ==
    GetModelByID([tables |-> tables', seqs |-> seqs', now |-> now'],
                 EmptyModel(T, TRUE), id, "none")

\* C27: a Create that returns an error returns id 0, and after it every
\* row there was is read by GetModelByID with the values it had and no
\* other id is found, in either table.
C27_RejectedCreate ==
    [][ (last'.op = "Create" /\ ~last'.err.nil)
        => /\ last'.id = 0
           /\ \A T \in StoredTypes :
                  \A id \in 1..(MaxId(T) + 1) :
                      IF id \in Ids(tables, T)
                      THEN /\ ReadAfter(T, id).err.nil
                           /\ \A i \in 1..Len(Fields(T)) :
                                  ReadAfter(T, id).model.f[Fields(T)[i].name]
                                      = tables[T][id][Fields(T)[i].db]
                      ELSE ~ReadAfter(T, id).err.nil ]_vars

\* A second user with the email of a stored one was rejected.
C27_Witness ==
    /\ last.op = "Create"
    /\ last.type = "User"
    /\ last.fail = "none"
    /\ ~last.err.nil
    /\ last.id = 0
    /\ \E id \in Ids(tables, "User") :
           tables["User"][id][<<"e", "m", "a", "i", "l">>] = last.given["Email"]

\* The request fails one of the stages of the clause builder: a filter key
\* that resolves to no column, a sort name that does, or a limit or offset
\* that is no integer.
InvalidRequest ==
    \/ Len(UnresolvedKeys) > 0
    \/ ~SortAccepted
    \/ BadPage(<<"l", "i", "m", "i", "t">>)
    \/ BadPage(<<"o", "f", "f", "s", "e", "t">>)

\* C28: QueryModel and QueryEvents given a request that fails a stage of
\* the clause builder return an error that starts with "invalid query: "
\* and a nil collection; no statement text was made and none issued, no
\* handle was opened, and the tables and the count of open handles are as
\* before.
C28_InvalidQuery ==
    [][ (last'.op \in QueryOps /\ InvalidRequest')
        => /\ ~last'.err.nil
           /\ HasPrefix(last'.err.msg, <<"i", "n", "v", "a", "l", "i", "d", " ", "q", "u", "e", "r", "y", ":", " ">>)
           /\ last'.isNil
           /\ last'.recs = <<>>
           /\ ~last'.issued
           /\ last'.query = <<>>
           /\ last'.trace = <<>>
           /\ tables' = tables
           /\ open' = open ]_vars

\* QueryEvents on the seeded tables with valid filters and sort and an
\* offset that is no integer.
C28_Witness ==
    /\ last.op = "QueryEvents"
    /\ tables["Event"] # <<>>
    /\ Len(FilterOrder(req.order)) > 0
    /\ Len(UnresolvedKeys) = 0
    /\ SortAccepted
    /\ ~BadPage(<<"l", "i", "m", "i", "t">>)
    /\ BadPage(<<"o", "f", "f", "s", "e", "t">>)
    /\ HasPrefix(last.err.msg, <<"i", "n", "v", "a", "l", "i", "d", " ", "q", "u", "e", "r", "y", ":", " ", "p", "a", "g", "i", "n", "a", "t", "i", "o", "n", " ", "e", "r", "r", ";", " ">>)
    /\ last.isNil

\* C29: an Update or a Delete of an id that no row of the table has,
\* the driver working, returns no error and leaves every table as it was;
\* a Delete that follows a Delete of the same record does so, too.
C29_AbsentRow ==
    [][ /\ (/\ last'.op \in {"Update", "Delete"}
            /\ last'.fail = "none"
            /\ last'.id \notin Ids(tables, last'.type))
           => /\ last'.err.nil
              /\ tables' = tables
        /\ (/\ last.op = "Delete" /\ last.err.nil
            /\ last'.op = "Delete" /\ last'.fail = "none"
            /\ last'.type = last.type /\ last'.id = last.id)
           => /\ last'.err.nil
              /\ tables' = tables ]_vars

\* An Update of a user whose id was never given out went through while
\* another user was stored.
C29_Witness ==
    /\ last.op = "Update"
    /\ last.type = "User"
    /\ last.fail = "none"
    /\ last.err.nil
    /\ last.id \notin Ids(tables, "User")
    /\ last.id >= seqs["User"]
    /\ tables["User"] # <<>>

\* The filter keys of the request that resolve to no column, whatever the
\* order they are visited in.
UnknownKeys ==
    {k \in (DOMAIN req.qp) \ {<<"s", "o", "r", "t", "B", "y">>, <<"l", "i", "m", "i", "t">>, <<"o", "f", "f", "s", "e", "t">>} :
        ~Resolves(last.type, StrippedKey(k))}

\* C30: the error of a build is that of the first stage the request
\* fails: of a filter key that resolves to no column, naming one of the
\* keys that do not, in whatever order the keys are visited; else of a
\* sort name that resolves to none; else of a limit that is no integer;
\* else of an offset that is none.
C30_StageOrder ==
    Built
    => /\ UnknownKeys # {}
          => \E k \in UnknownKeys :
                 last.cerr = Err(<<"i", "n", "v", "a", "l", "i", "d", " ", "q", "u", "e", "r", "y", " ", "p", "a", "r", "a", "m", "e", "t", "e", "r", ":", " ">> \o StrippedKey(k))
       /\ (UnknownKeys = {} /\ ~SortAccepted)
          => last.cerr = Err(<<"i", "n", "v", "a", "l", "i", "d", " ", "s", "o", "r", "t", " ", "v", "a", "l", "u", "e", ":", " ">> \o SortName)
       /\ (UnknownKeys = {} /\ SortAccepted /\ BadPage(<<"l", "i", "m", "i", "t">>))
          => HasPrefix(last.cerr.msg,
                       <<"p", "a", "g", "i", "n", "a", "t", "i", "o", "n", " ", "e", "r", "r", ";", " ", "l", "i", "m", "i", "t", " ", "m", "u", "s", "t", " ", "b", "e", " ", "a", " ", "n", "u", "m", "b", "e", "r", ":", " ">>)
       /\ (UnknownKeys = {} /\ SortAccepted /\ ~BadPage(<<"l", "i", "m", "i", "t">>)
           /\ BadPage(<<"o", "f", "f", "s", "e", "t">>))
          => HasPrefix(last.cerr.msg,
                       <<"p", "a", "g", "i", "n", "a", "t", "i", "o", "n", " ", "e", "r", "r", ";", " ", "o", "f", "f", "s", "e", "t", " ", "m", "u", "s", "t", " ", "b", "e", " ", "a", " ", "n", "u", "m", "b", "e", "r", ":", " ">>)

\* An unknown filter key, an unknown sort name and a limit and an offset
\* that are no integers, the reserved keys visited first: the error is of
\* the filter key.
C30_Witness ==
    /\ Built
    /\ UnknownKeys = {<<"n", "o", "S", "u", "c", "h", "T", "h", "i", "n", "g">>}
    /\ ~SortAccepted
    /\ BadPage(<<"l", "i", "m", "i", "t">>)
    /\ BadPage(<<"o", "f", "f", "s", "e", "t">>)
    /\ req.order[1] = <<"s", "o", "r", "t", "B", "y">>
    /\ last.cerr = Err(<<"i", "n", "v", "a", "l", "i", "d", " ", "q", "u", "e", "r", "y", " ", "p", "a", "r", "a", "m", "e", "t", "e", "r", ":", " ", "n", "o", "S", "u", "c", "h", "T", "h", "i", "n", "g">>)
====
